---------------------------- MODULE Spec2Model ----------------------------
(***************************************************************************)
(* Model of MapToken: the procedural frame engine (frames.js, kept here as *)
(* src/unnamed/part_000) and the parts of app.js that call it.             *)
(*                                                                         *)
(* Conventions                                                             *)
(*  - a colour string '#rrggbb' is a sequence of one-character strings;    *)
(*  - lengths on the 512x512 canvas are integers in twentieths of a unit  *)
(*    (5120 is the centre coordinate 256);                                 *)
(*  - the doubles of the tone helper are evaluated in exact rational       *)
(*    arithmetic.  IEEE-754 evaluation agrees with it except where a value *)
(*    handed to Math.round is exactly k + 1/2: there the accumulated       *)
(*    representation error decides between k and k + 1.  The bounded input *)
(*    sets therefore hold only colours for which no rounding of the tone   *)
(*    derivation is such a tie (ExactlyRounded), so that on every input of *)
(*    the model the operators return what the code returns.                *)
(***************************************************************************)
EXTENDS Integers, Sequences, FiniteSets, TLC

VARIABLES
    hex,        \* tone derivation: the accent colour handed to the helper
    hsl,        \* tone derivation: result of hexToHSL(hex)
    toneArgs,   \* tone derivation: the (h, s, l) handed to hslToHex per tone
    palette,    \* tone derivation: result of toneVariants(hex)
    called,     \* tone derivation: the helpers that have returned
    FRAMES,     \* the exported registry array
    canvas,     \* a thumbnail canvas: what was drawn on it since its last clear
    pending,    \* image loads of that canvas still in flight, oldest first
    outcome,    \* how the latest call FRAMES[frameIndex].fn(color) ended
    state,      \* the state object of app.js
    preview,    \* the preview canvas: what was drawn on it since its last clear
    renders,    \* render() calls on the preview awaiting their frame image
    overlay,    \* the overlay canvas: the handle centres renderOverlay drew
    history     \* what the page was told: the events handled so far

toneVars == <<hex, hsl, toneArgs, palette, called>>
frameVars == <<FRAMES, canvas, pending, outcome>>
appVars == <<state, preview, renders, overlay, history>>
vars == <<hex, hsl, toneArgs, palette, called, FRAMES, canvas, pending, outcome,
          state, preview, renders, overlay, history>>

Nil == <<>>
NaN == "NaN"

Max2(a, b) == IF a >= b THEN a ELSE b
Min2(a, b) == IF a <= b THEN a ELSE b
Max3(a, b, c) == Max2(a, Max2(b, c))
Min3(a, b, c) == Min2(a, Min2(b, c))

(***************************************************************************)
(* Math.round(n / d) for d > 0: the nearest integer, a tie going up.       *)
(***************************************************************************)
MathRound(n, d) == (2 * n + d) \div (2 * d)

\* n / d is exactly k + 1/2 for an integer k
IsTie(n, d) == (2 * n) % (2 * d) = d

------------------------------------------------------------------------------
(* parseInt(s, 16), Number.prototype.toString(16), String.prototype.padStart *)

HexDigits == <<"0", "1", "2", "3", "4", "5", "6", "7",
               "8", "9", "a", "b", "c", "d", "e", "f">>
UpperDigits == <<"0", "1", "2", "3", "4", "5", "6", "7",
                 "8", "9", "A", "B", "C", "D", "E", "F">>

IsHexDigit(c) == \E i \in 1..16 : HexDigits[i] = c \/ UpperDigits[i] = c

DigitValue(c) == (CHOOSE i \in 1..16 : HexDigits[i] = c \/ UpperDigits[i] = c) - 1

RECURSIVE ParsePrefix(_, _)
ParsePrefix(s, acc) ==
    IF s = <<>> \/ ~IsHexDigit(Head(s)) THEN acc
    ELSE ParsePrefix(Tail(s), 16 * acc + DigitValue(Head(s)))

\* parseInt reads the longest prefix of hexadecimal digits; none gives NaN
parseInt16(s) ==
    IF s = <<>> \/ ~IsHexDigit(Head(s)) THEN NaN ELSE ParsePrefix(s, 0)

RECURSIVE toString16(_)
toString16(v) ==
    IF v < 0 THEN <<"-">> \o toString16(-v)
    ELSE IF v < 16 THEN <<HexDigits[v + 1]>>
    ELSE toString16(v \div 16) \o <<HexDigits[(v % 16) + 1]>>

RECURSIVE padStart(_, _, _)
padStart(s, n, c) == IF Len(s) >= n THEN s ELSE padStart(<<c>> \o s, n, c)

\* hex.slice(a, b) with 0-based a (inclusive) and b (exclusive)
slice(s, a, b) == SubSeq(s, a + 1, Min2(b, Len(s)))

------------------------------------------------------------------------------
(* hexToHSL: the channels are R/255, G/255, B/255; every quotient is kept  *)
(* as numerator and denominator until Math.round.                          *)

\* the hue with the channel difference divided by max instead of max - min
HueFraction_ByMax(R, G, B, M, d) ==
    IF M = R THEN <<60 * (G - B) + (IF G < B THEN 360 * M ELSE 0), M>>
    ELSE IF M = G THEN <<60 * (B - R) + 120 * M, M>>
    ELSE <<60 * (R - G) + 240 * M, M>>

\* h * 360 as <<numerator, denominator>>, by the channel that is the maximum M;
\* d = max - min
HueFraction(R, G, B, M, d) ==
    IF M = R THEN <<60 * (G - B) + (IF G < B THEN 360 * d ELSE 0), d>>
    ELSE IF M = G THEN <<60 * (B - R) + 120 * d, d>>
    ELSE <<60 * (R - G) + 240 * d, d>>

\* s * 100 as <<numerator, denominator>>; l > 0.5 exactly when max + min > 255
SatFraction(M, m) ==
    IF M + m > 255 THEN <<100 * (M - m), 510 - M - m>>
    ELSE <<100 * (M - m), M + m>>

RoundFraction(f) == MathRound(f[1], f[2])

\* the body of hexToHSL reporting the undefined hue of a grey as 360, not 0
HSLOfChannels_GreyHue360(R, G, B, M, m) ==
    IF M = m THEN <<360, 0, MathRound((M + m) * 100, 510)>>
    ELSE <<RoundFraction(HueFraction(R, G, B, M, M - m)),
           RoundFraction(SatFraction(M, m)),
           MathRound((M + m) * 100, 510)>>

\* the body of hexToHSL for the parsed channels, M their maximum, m their minimum
HSLOfChannels(R, G, B, M, m) ==
    IF M = m THEN <<0, 0, MathRound((M + m) * 100, 510)>>
    ELSE <<RoundFraction(HueFraction(R, G, B, M, M - m)),
           RoundFraction(SatFraction(M, m)),
           MathRound((M + m) * 100, 510)>>

\* the channels of '#rrggbb' with their maximum and minimum
Channels5(R, G, B) == <<R, G, B, Max3(R, G, B), Min3(R, G, B)>>

ParsedChannels(hx) ==
    Channels5(parseInt16(slice(hx, 1, 3)),
              parseInt16(slice(hx, 3, 5)),
              parseInt16(slice(hx, 5, 7)))

HSLOf(c) == HSLOfChannels(c[1], c[2], c[3], c[4], c[5])
hexToHSL(hx) == HSLOf(ParsedChannels(hx))

------------------------------------------------------------------------------
(* hslToHex: with s and l in percent and h in degrees,                     *)
(*   k = (n + h/30) % 12, color = l - a * max(min(k-3, 9-k, 1), -1),       *)
(*   a = s * min(l, 1 - l).                                                *)
(* 30 * max(min(k-3, 9-k, 1), -1) is the integer Facet(n, h), and          *)
(* 255 * color = 17 * (3000 l - s min(l, 100-l) Facet) / 20000.            *)

Facet(n, h) ==
    LET K == (30 * n + h) % 360
    IN  Max2(Min3(K - 90, 270 - K, 30), -30)

ChannelNumerator(n, h, s, l) == 17 * (3000 * l - s * Min2(l, 100 - l) * Facet(n, h))

\* f(n): Math.round(255 * color).toString(16).padStart(2, '0')
Channel(n, h, s, l) ==
    padStart(toString16(MathRound(ChannelNumerator(n, h, s, l), 20000)), 2, "0")

hslToHex(h, s, l) ==
    <<"#">> \o Channel(0, h, s, l) \o Channel(8, h, s, l) \o Channel(4, h, s, l)

------------------------------------------------------------------------------
(* toneVariants                                                            *)

Tones == {"base", "light", "dark", "vdark", "shine"}

\* the tones without the floor under the lightness of vdark
ToneOffsets_NoFloor(t) ==
    [base  |-> <<t[1], t[2], t[3]>>,
     light |-> <<t[1], Max2(t[2] - 5, 0), Min2(t[3] + 22, 92)>>,
     dark  |-> <<t[1], Min2(t[2] + 5, 100), Max2(t[3] - 22, 8)>>,
     vdark |-> <<t[1], Min2(t[2] + 10, 100), t[3] - 38>>,
     shine |-> <<t[1], Max2(t[2] - 15, 0), Min2(t[3] + 38, 96)>>]

\* the tones with the saturation handed to hslToHex as the hue of shine
ToneOffsets_ShineHue(t) ==
    [base  |-> <<t[1], t[2], t[3]>>,
     light |-> <<t[1], Max2(t[2] - 5, 0), Min2(t[3] + 22, 92)>>,
     dark  |-> <<t[1], Min2(t[2] + 5, 100), Max2(t[3] - 22, 8)>>,
     vdark |-> <<t[1], Min2(t[2] + 10, 100), Max2(t[3] - 38, 4)>>,
     shine |-> <<t[2], Max2(t[2] - 15, 0), Min2(t[3] + 38, 96)>>]

\* the (h, s, l) of each tone, from t = hexToHSL(hex)
ToneOffsets(t) ==
    [base  |-> <<t[1], t[2], t[3]>>,
     light |-> <<t[1], Max2(t[2] - 5, 0), Min2(t[3] + 22, 92)>>,
     dark  |-> <<t[1], Min2(t[2] + 5, 100), Max2(t[3] - 22, 8)>>,
     vdark |-> <<t[1], Min2(t[2] + 10, 100), Max2(t[3] - 38, 4)>>,
     shine |-> <<t[1], Max2(t[2] - 15, 0), Min2(t[3] + 38, 96)>>]

\* the arguments toneVariants hands to hslToHex for each tone
toneArguments(hx) == ToneOffsets(hexToHSL(hx))

\* the five calls of hslToHex
TonesFrom(a) == [t \in Tones |-> hslToHex(a[t][1], a[t][2], a[t][3])]

toneVariants(hx) == TonesFrom(toneArguments(hx))

------------------------------------------------------------------------------
(* Geometry.  Lengths are integers in twentieths of a canvas unit (5120 is *)
(* the coordinate 256), the finest grid that holds every one-decimal       *)
(* coordinate and every half stroke width the frames use.  An angle is a   *)
(* pair <<q, c>>: q quarter-degrees plus c hundredths of a radian, which   *)
(* holds every angle the generators form exactly (10 degree rope steps,    *)
(* their 0.55 and 0.275 fractions, the +-0.08, +-0.18 and +-1.2 radian     *)
(* offsets).                                                               *)

Px(n) == 20 * n

Centre == <<Px(256), Px(256)>>

Angle(q, c) == <<q % 1440, c>>

\* angle in degrees * Math.PI / 180
Degrees(d) == Angle(4 * d, 0)

\* a + x for x given in hundredths of a radian
PlusRadians(a, c) == <<a[1], a[2] + c>>

\* a + Math.PI
PlusPi(a) == Angle(a[1] + 720, a[2])

\* <<Math.cos, Math.sin>> in millionths, for the angles the generators use
Trig(a) ==
    CASE
         a[1] = 0 -> (CASE a[2] = -120 -> <<362358, -932039>> [] a[2] = -18 -> <<983844, -179030>> [] a[2] = 0 -> <<1000000, 0>> [] a[2] = 18 -> <<983844, 179030>> [] a[2] = 120 -> <<362358, 932039>>)
      [] a = <<11, -8>> -> <<999488, -31998>>
      [] a = <<22, 0>> -> <<995396, 95846>>
      [] a = <<40, 0>> -> <<984808, 173648>>
      [] a = <<51, 8>> -> <<954586, 297936>>
      [] a = <<60, 0>> -> <<965926, 258819>>
      [] a = <<62, 0>> -> <<963630, 267238>>
      [] a = <<80, 0>> -> <<939693, 342020>>
      [] a = <<88, 0>> -> <<927184, 374607>>
      [] a = <<90, 0>> -> <<923880, 382683>>
      [] a = <<91, -8>> -> <<950155, 311777>>
      [] a = <<102, 0>> -> <<902585, 430511>>
      [] a = <<120, 0>> -> <<866025, 500000>>
      [] a = <<131, 8>> -> <<795117, 606456>>
      [] a = <<132, 0>> -> <<838671, 544639>>
      [] a = <<142, 0>> -> <<814116, 580703>>
      [] a = <<160, 0>> -> <<766044, 642788>>
      [] a = <<171, -8>> -> <<786220, 617947>>
      [] a = <<176, 0>> -> <<719340, 694658>>
      [] a[1] = 180 -> (CASE a[2] = -120 -> <<915277, -402826>> [] a[2] = -18 -> <<822276, 569090>> [] a[2] = 0 -> <<707107, 707107>> [] a[2] = 18 -> <<569090, 822276>> [] a[2] = 120 -> <<-402826, 915277>>)
      [] a = <<182, 0>> -> <<700909, 713250>>
      [] a = <<200, 0>> -> <<642788, 766044>>
      [] a = <<211, 8>> -> <<539746, 841828>>
      [] a = <<222, 0>> -> <<566406, 824126>>
      [] a = <<240, 0>> -> <<500000, 866025>>
      [] a = <<251, -8>> -> <<527455, 849583>>
      [] a = <<262, 0>> -> <<414693, 909961>>
      [] a = <<268, 0>> -> <<390731, 920505>>
      [] a = <<270, 0>> -> <<382683, 923880>>
      [] a = <<280, 0>> -> <<342020, 939693>>
      [] a = <<291, 8>> -> <<219273, 975664>>
      [] a = <<300, 0>> -> <<258819, 965926>>
      [] a = <<302, 0>> -> <<250380, 968148>>
      [] a = <<312, 0>> -> <<207912, 978148>>
      [] a = <<320, 0>> -> <<173648, 984808>>
      [] a = <<331, -8>> -> <<205071, 978747>>
      [] a = <<342, 0>> -> <<78459, 996917>>
      [] a = <<356, 0>> -> <<17452, 999848>>
      [] a[1] = 360 -> (CASE a[2] = -120 -> <<932039, 362358>> [] a[2] = -18 -> <<179030, 983844>> [] a[2] = 0 -> <<0, 1000000>> [] a[2] = 18 -> <<-179030, 983844>> [] a[2] = 120 -> <<-932039, 362358>>)
      [] a = <<371, 8>> -> <<-127647, 991820>>
      [] a = <<382, 0>> -> <<-95846, 995396>>
      [] a = <<400, 0>> -> <<-173648, 984808>>
      [] a = <<411, -8>> -> <<-142047, 989860>>
      [] a = <<420, 0>> -> <<-258819, 965926>>
      [] a = <<422, 0>> -> <<-267238, 963630>>
      [] a = <<440, 0>> -> <<-342020, 939693>>
      [] a = <<448, 0>> -> <<-374607, 927184>>
      [] a = <<450, 0>> -> <<-382683, 923880>>
      [] a = <<451, 8>> -> <<-459172, 888348>>
      [] a = <<462, 0>> -> <<-430511, 902585>>
      [] a = <<480, 0>> -> <<-500000, 866025>>
      [] a = <<491, -8>> -> <<-472033, 881581>>
      [] a = <<492, 0>> -> <<-544639, 838671>>
      [] a = <<502, 0>> -> <<-580703, 814116>>
      [] a = <<520, 0>> -> <<-642788, 766044>>
      [] a = <<531, 8>> -> <<-735313, 677728>>
      [] a = <<536, 0>> -> <<-694658, 719340>>
      [] a[1] = 540 -> (CASE a[2] = -120 -> <<402826, 915277>> [] a[2] = -18 -> <<-569090, 822276>> [] a[2] = 0 -> <<-707107, 707107>> [] a[2] = 18 -> <<-822276, 569090>> [] a[2] = 120 -> <<-915277, -402826>>)
      [] a = <<542, 0>> -> <<-713250, 700909>>
      [] a = <<560, 0>> -> <<-766044, 642788>>
      [] a = <<571, -8>> -> <<-745084, 666970>>
      [] a = <<582, 0>> -> <<-824126, 566406>>
      [] a = <<600, 0>> -> <<-866025, 500000>>
      [] a = <<611, 8>> -> <<-922765, 385364>>
      [] a = <<622, 0>> -> <<-909961, 414693>>
      [] a = <<628, 0>> -> <<-920505, 390731>>
      [] a = <<630, 0>> -> <<-923880, 382683>>
      [] a = <<640, 0>> -> <<-939693, 342020>>
      [] a = <<651, -8>> -> <<-928267, 371913>>
      [] a = <<660, 0>> -> <<-965926, 258819>>
      [] a = <<662, 0>> -> <<-968148, 250380>>
      [] a = <<672, 0>> -> <<-978148, 207912>>
      [] a = <<680, 0>> -> <<-984808, 173648>>
      [] a = <<691, 8>> -> <<-998917, 46520>>
      [] a = <<702, 0>> -> <<-996917, 78459>>
      [] a = <<716, 0>> -> <<-999848, 17452>>
      [] a[1] = 720 -> (CASE a[2] = -120 -> <<-362358, 932039>> [] a[2] = -18 -> <<-983844, 179030>> [] a[2] = 0 -> <<-1000000, 0>> [] a[2] = 18 -> <<-983844, -179030>> [] a[2] = 120 -> <<-362358, -932039>>)
      [] a = <<731, -8>> -> <<-999488, 31998>>
      [] a = <<742, 0>> -> <<-995396, -95846>>
      [] a = <<760, 0>> -> <<-984808, -173648>>
      [] a = <<771, 8>> -> <<-954586, -297936>>
      [] a = <<780, 0>> -> <<-965926, -258819>>
      [] a = <<782, 0>> -> <<-963630, -267238>>
      [] a = <<800, 0>> -> <<-939693, -342020>>
      [] a = <<808, 0>> -> <<-927184, -374607>>
      [] a = <<810, 0>> -> <<-923880, -382683>>
      [] a = <<811, -8>> -> <<-950155, -311777>>
      [] a = <<822, 0>> -> <<-902585, -430511>>
      [] a = <<840, 0>> -> <<-866025, -500000>>
      [] a = <<851, 8>> -> <<-795117, -606456>>
      [] a = <<852, 0>> -> <<-838671, -544639>>
      [] a = <<862, 0>> -> <<-814116, -580703>>
      [] a = <<880, 0>> -> <<-766044, -642788>>
      [] a = <<891, -8>> -> <<-786220, -617947>>
      [] a = <<896, 0>> -> <<-719340, -694658>>
      [] a[1] = 900 -> (CASE a[2] = -120 -> <<-915277, 402826>> [] a[2] = -18 -> <<-822276, -569090>> [] a[2] = 0 -> <<-707107, -707107>> [] a[2] = 18 -> <<-569090, -822276>> [] a[2] = 120 -> <<402826, -915277>>)
      [] a = <<902, 0>> -> <<-700909, -713250>>
      [] a = <<920, 0>> -> <<-642788, -766044>>
      [] a = <<931, 8>> -> <<-539746, -841828>>
      [] a = <<942, 0>> -> <<-566406, -824126>>
      [] a = <<960, 0>> -> <<-500000, -866025>>
      [] a = <<971, -8>> -> <<-527455, -849583>>
      [] a = <<982, 0>> -> <<-414693, -909961>>
      [] a = <<988, 0>> -> <<-390731, -920505>>
      [] a = <<990, 0>> -> <<-382683, -923880>>
      [] a = <<1000, 0>> -> <<-342020, -939693>>
      [] a = <<1011, 8>> -> <<-219273, -975664>>
      [] a = <<1020, 0>> -> <<-258819, -965926>>
      [] a = <<1022, 0>> -> <<-250380, -968148>>
      [] a = <<1032, 0>> -> <<-207912, -978148>>
      [] a = <<1040, 0>> -> <<-173648, -984808>>
      [] a = <<1051, -8>> -> <<-205071, -978747>>
      [] a = <<1062, 0>> -> <<-78459, -996917>>
      [] a = <<1076, 0>> -> <<-17452, -999848>>
      [] a[1] = 1080 -> (CASE a[2] = -120 -> <<-932039, -362358>> [] a[2] = -18 -> <<-179030, -983844>> [] a[2] = 0 -> <<0, -1000000>> [] a[2] = 18 -> <<179030, -983844>> [] a[2] = 120 -> <<932039, -362358>>)
      [] a = <<1091, 8>> -> <<127647, -991820>>
      [] a = <<1102, 0>> -> <<95846, -995396>>
      [] a = <<1120, 0>> -> <<173648, -984808>>
      [] a = <<1131, -8>> -> <<142047, -989860>>
      [] a = <<1140, 0>> -> <<258819, -965926>>
      [] a = <<1142, 0>> -> <<267238, -963630>>
      [] a = <<1160, 0>> -> <<342020, -939693>>
      [] a = <<1168, 0>> -> <<374607, -927184>>
      [] a = <<1170, 0>> -> <<382683, -923880>>
      [] a = <<1171, 8>> -> <<459172, -888348>>
      [] a = <<1182, 0>> -> <<430511, -902585>>
      [] a = <<1200, 0>> -> <<500000, -866025>>
      [] a = <<1211, -8>> -> <<472033, -881581>>
      [] a = <<1212, 0>> -> <<544639, -838671>>
      [] a = <<1222, 0>> -> <<580703, -814116>>
      [] a = <<1240, 0>> -> <<642788, -766044>>
      [] a = <<1251, 8>> -> <<735313, -677728>>
      [] a = <<1256, 0>> -> <<694658, -719340>>
      [] a[1] = 1260 -> (CASE a[2] = -120 -> <<-402826, -915277>> [] a[2] = -18 -> <<569090, -822276>> [] a[2] = 0 -> <<707107, -707107>> [] a[2] = 18 -> <<822276, -569090>> [] a[2] = 120 -> <<915277, 402826>>)
      [] a = <<1262, 0>> -> <<713250, -700909>>
      [] a = <<1280, 0>> -> <<766044, -642788>>
      [] a = <<1291, -8>> -> <<745084, -666970>>
      [] a = <<1302, 0>> -> <<824126, -566406>>
      [] a = <<1320, 0>> -> <<866025, -500000>>
      [] a = <<1331, 8>> -> <<922765, -385364>>
      [] a = <<1342, 0>> -> <<909961, -414693>>
      [] a = <<1348, 0>> -> <<920505, -390731>>
      [] a = <<1350, 0>> -> <<923880, -382683>>
      [] a = <<1360, 0>> -> <<939693, -342020>>
      [] a = <<1371, -8>> -> <<928267, -371913>>
      [] a = <<1380, 0>> -> <<965926, -258819>>
      [] a = <<1382, 0>> -> <<968148, -250380>>
      [] a = <<1392, 0>> -> <<978148, -207912>>
      [] a = <<1400, 0>> -> <<984808, -173648>>
      [] a = <<1411, 8>> -> <<998917, -46520>>
      [] a = <<1422, 0>> -> <<996917, -78459>>
      [] a = <<1436, 0>> -> <<999848, -17452>>
Cos(a) == Trig(a)[1]
Sin(a) == Trig(a)[2]

\* Values, in millionths, whose double the source computes lies below the
\* decimal tie they stand for: 256 + 242 - 13 * 0.35 is the double
\* 493.44999999999998, which toFixed(1) prints as 493.4.
DoublesBelowTie == {493450000}

\* Number.prototype.toFixed(1) of a positive value held in millionths,
\* as twentieths
toFixed1(micro) ==
    IF micro \in DoublesBelowTie THEN 2 * (micro \div 100000)
    ELSE 2 * ((micro + 50000) \div 100000)

\* (256 + r * Math.cos(a)).toFixed(1), (256 + r * Math.sin(a)).toFixed(1)
OnCircle(r, a) ==
    <<toFixed1(256000000 + r * Cos(a)), toFixed1(256000000 + r * Sin(a))>>

------------------------------------------------------------------------------
(* SVG elements.  A paint is a sequence of characters, as a colour is.     *)

NoPaint == <<"n", "o", "n", "e">>
White == <<"w", "h", "i", "t", "e">>
Black == <<"b", "l", "a", "c", "k">>
GemGradPaint == <<"u", "r", "l", "(", "#", "g", "e", "m", "G", "r", "a", "d", ")">>

\* <circle cx="256" cy="256" r="..." fill="..." />
Disc(r, fill) ==
    [tag |-> "circle", cx |-> Px(256), cy |-> Px(256), r |-> Px(r), fill |-> fill,
     stroke |-> NoPaint, sw |-> 0, opacity |-> 100]

\* <circle cx cy r fill stroke stroke-width opacity/> at a computed centre
Circle(c, r, fill, stroke, sw, opacity) ==
    [tag |-> "circle", cx |-> c[1], cy |-> c[2], r |-> r, fill |-> fill,
     stroke |-> stroke, sw |-> sw, opacity |-> opacity]

\* <path d="M p0 Q pc p1" stroke stroke-width fill="none" [stroke-linecap]/>
Path(p0, pc, p1, stroke, sw, linecap) ==
    [tag |-> "path", d |-> <<p0, pc, p1>>, fill |-> NoPaint, stroke |-> stroke,
     sw |-> sw, linecap |-> linecap, opacity |-> 100]

\* <polygon points fill stroke stroke-width opacity/>
Polygon(pts, fill, stroke, sw, opacity) ==
    [tag |-> "polygon", points |-> pts, fill |-> fill, stroke |-> stroke,
     sw |-> sw, opacity |-> opacity]

(* svgWrap: the 512x512 document whose only painted child is the group     *)
(* masked by "fm": a white rectangle over the canvas with a black disc of  *)
(* radius 232 at the centre.                                               *)
HoleRadius == 232

\* svgWrap without mask="url(#fm)" on the group
svgWrap_NoMask(content) ==
    [tag |-> "svg", width |-> Px(512), height |-> Px(512),
     masks |-> <<[id |-> "fm",
                  children |-> <<[tag |-> "rect", width |-> Px(512),
                                  height |-> Px(512), fill |-> White],
                                 [tag |-> "circle", cx |-> Px(256), cy |-> Px(256),
                                  r |-> Px(HoleRadius), fill |-> Black,
                                  stroke |-> NoPaint, sw |-> 0]>>]>>,
     children |-> <<[tag |-> "g", mask |-> "", children |-> content]>>]

svgWrap(content) ==
    [tag |-> "svg", width |-> Px(512), height |-> Px(512),
     masks |-> <<[id |-> "fm",
                  children |-> <<[tag |-> "rect", width |-> Px(512),
                                  height |-> Px(512), fill |-> White],
                                 [tag |-> "circle", cx |-> Px(256), cy |-> Px(256),
                                  r |-> Px(HoleRadius), fill |-> Black,
                                  stroke |-> NoPaint, sw |-> 0]>>]>>,
     children |-> <<[tag |-> "g", mask |-> "fm", children |-> content]>>]

\* s1 + s2 + ... for the strings a loop appends, in loop order
RECURSIVE Concat(_)
Concat(ss) == IF ss = <<>> THEN <<>> ELSE Head(ss) \o Concat(Tail(ss))

------------------------------------------------------------------------------
(* Frame 1: Simple Ring                                                    *)

\* the simple ring with its tones exchanged: base, dark, base
SimpleRingScene_BaseOuter(t) ==
    <<Disc(248, t.base), Disc(240, t.dark), Disc(234, t.base)>>

\* the content of the template string, for the palette t
SimpleRingScene(t) ==
    <<Disc(248, t.dark), Disc(240, t.base), Disc(234, t.dark)>>

frameSimpleRing(color) == svgWrap(SimpleRingScene(toneVariants(color)))

(* Frame 2: Double Ring                                                    *)

\* the double ring with its gap disc painted vdark like its neighbours
DoubleRingScene_GapVdark(t) ==
    <<Disc(252, t.vdark), Disc(248, t.base), Disc(243, t.vdark),
      Disc(240, t.vdark),
      Disc(238, t.vdark), Disc(235, t.light), Disc(232, t.vdark)>>

\* the content of the template string, for the palette t
DoubleRingScene(t) ==
    <<Disc(252, t.vdark), Disc(248, t.base), Disc(243, t.vdark),
      Disc(240, t.dark),
      Disc(238, t.vdark), Disc(235, t.light), Disc(232, t.vdark)>>

frameDoubleRing(color) == svgWrap(DoubleRingScene(toneVariants(color)))

(* Frame 3: Rope Twist                                                     *)

RopeSegments == 36
RopeRadius == 242
RopeInnerRadius == 234

\* step = 2 * Math.PI / segments, in quarter-degrees
RopeStep == 1440 \div RopeSegments

\* a0 = i * step - Math.PI / 2
RopeA0(i) == Angle(i * RopeStep - 360, 0)
\* a1 = a0 + step * 0.55
RopeA1(i) == Angle(i * RopeStep - 360 + (RopeStep * 55) \div 100, 0)
\* am = a0 + step * 0.275 + (i % 2 === 0 ? 0.08 : -0.08)
RopeAm(i) ==
    Angle(i * RopeStep - 360 + (RopeStep * 275) \div 1000, IF i % 2 = 0 THEN 8 ELSE -8)

\* the three points of strand i: M x0,y0 Q xm,ym x1,y1
RopeStrandPoints(i) ==
    <<OnCircle(RopeRadius, RopeA0(i)),
      OnCircle(RopeInnerRadius, RopeAm(i)),
      OnCircle(RopeRadius, RopeA1(i))>>

\* strand i drawn with stroke-width 29 instead of 9
RopeStrand_Wide(p, i, t) ==
    Path(p[1], p[2], p[3], IF i % 2 = 0 THEN t.base ELSE t.dark, Px(29), "round")

\* strand i with its colour: base for even i, dark for odd i
RopeStrand(p, i, t) ==
    Path(p[1], p[2], p[3], IF i % 2 = 0 THEN t.base ELSE t.dark, Px(9), "round")

RopeStrands(t) ==
    [k \in 1..RopeSegments |-> RopeStrand(RopeStrandPoints(k - 1), k - 1, t)]

\* the content of the template string, for the palette t
RopeTwistScene(t) ==
    <<Disc(252, t.vdark), Disc(248, t.dark)>>
    \o RopeStrands(t)
    \o <<Disc(233, t.vdark)>>

frameRopeTwist(color) == svgWrap(RopeTwistScene(toneVariants(color)))

(* Frame 4: Ornate Fantasy                                                 *)

\* petal(256, 256, angle, size): <<l, tip, r>> with r1 = 238, r2 = 248
PetalAt(a) ==
    <<OnCircle(238, PlusRadians(a, -18)),
      OnCircle(248, a),
      OnCircle(238, PlusRadians(a, 18))>>

PetalPoints(i) == PetalAt(Degrees(i * 45 - 90))

\* (size * 0.35).toFixed(1) for size = 6: "2.1"
PetalDotRadius == 42

PetalShapes(p, t) ==
    <<Path(p[1], p[2], p[3], t.shine, 50, "butt"),
      Circle(p[2], PetalDotRadius, t.light, NoPaint, 0, 100)>>

petal(t, i) == PetalShapes(PetalPoints(i), t)

\* vine i: from rv = 241 at 22 degrees past the petal to 44 degrees past it,
\* bowed through rv + 4 at the mean angle
VinePoints(i) ==
    <<OnCircle(241, Degrees(i * 45 - 90 + 22)),
      OnCircle(241 + 4, Degrees(i * 45 - 90 + 33)),
      OnCircle(241, Degrees(i * 45 - 90 + 44))>>

VineShapes(p, t) == <<Path(p[1], p[2], p[3], t.base, Px(2), "butt")>>

vine(t, i) == VineShapes(VinePoints(i), t)

\* the content of the template string, for the palette t
OrnateFantasyScene(t) ==
    <<Disc(252, t.vdark), Disc(248, t.dark), Disc(244, t.base), Disc(237, t.dark)>>
    \o Concat([k \in 1..8 |-> vine(t, k - 1)])
    \o Concat([k \in 1..8 |-> petal(t, k - 1)])
    \o <<Disc(233, t.vdark)>>

frameOrnateFantasy(color) == svgWrap(OrnateFantasyScene(toneVariants(color)))

(* Frame 5: Riveted Metal                                                  *)

RivetCount == 24

\* a = (i / n) * 2 * Math.PI, without the quarter turn back to the top
RivetAngle_FromEast(i) == Angle((i * 1440) \div RivetCount, 0)

\* a = (i / n) * 2 * Math.PI - Math.PI / 2
RivetAngle(i) == Angle((i * 1440) \div RivetCount - 360, 0)

RivetCentre(i) == OnCircle(242, RivetAngle(i))

RivetShapes(c, t) ==
    <<Circle(c, Px(5), t.vdark, t.shine, 30, 100),
      Circle(c, Px(2), t.light, NoPaint, 0, 100)>>

rivet(t, i) == RivetShapes(RivetCentre(i), t)

\* band i: r = 234 + i * 3, opacity 0.12 + i * 0.04 (in percent)
band(t, i) ==
    <<[tag |-> "circle", cx |-> Px(256), cy |-> Px(256), r |-> Px(234 + i * 3),
       fill |-> NoPaint, stroke |-> t.light, sw |-> 30, opacity |-> 12 + i * 4]>>

\* the riveted scene with its innermost disc emitted second
RivetedMetalScene_InnerSecond(t) ==
    <<Disc(252, t.vdark), Disc(233, t.vdark), Disc(249, t.dark), Disc(237, t.base)>>
    \o Concat([k \in 1..5 |-> band(t, k - 1)])
    \o Concat([k \in 1..RivetCount |-> rivet(t, k - 1)])

\* the content of the template string, for the palette t
RivetedMetalScene(t) ==
    <<Disc(252, t.vdark), Disc(249, t.dark), Disc(237, t.base)>>
    \o Concat([k \in 1..5 |-> band(t, k - 1)])
    \o Concat([k \in 1..RivetCount |-> rivet(t, k - 1)])
    \o <<Disc(233, t.vdark)>>

frameRivetedMetal(color) == svgWrap(RivetedMetalScene(toneVariants(color)))

(* Frame 6: Gem Border                                                     *)

GemRingRadius == 242

\* gx + Math.cos(b) * s * f, gy + Math.sin(b) * s * f, both toFixed(1), for
\* the gem centred at angle a and s * f given in hundredths
GemVertex(a, b, sf) ==
    <<toFixed1(256000000 + GemRingRadius * Cos(a) + (Cos(b) * sf) \div 100),
      toFixed1(256000000 + GemRingRadius * Sin(a) + (Sin(b) * sf) \div 100)>>

\* the gems laid out from the right-hand side instead of from the top
GemAngle_FromEast(i) == Degrees(i * 45)

GemAngle(i) == Degrees(i * 45 - 90)

\* gem(256, 256, angle, 13): tip 0.4 s, sides 0.55 s at +-1.2 rad, base 0.35 s
GemAt(a) ==
    <<GemVertex(a, a, 520),
      GemVertex(a, PlusRadians(a, 120), 715),
      GemVertex(a, PlusPi(a), 455),
      GemVertex(a, PlusRadians(a, -120), 715)>>

GemPoints(i) == GemAt(GemAngle(i))

GemCentre(i) == OnCircle(GemRingRadius, GemAngle(i))

\* (size * 0.18).toFixed(1) for size = 13: "2.3"
GemDotRadius == 46

GemShapes(pts, c, t) ==
    <<Polygon(pts, t.base, t.vdark, Px(1), 100),
      Polygon(pts, GemGradPaint, NoPaint, 0, 40),
      Circle(c, GemDotRadius, t.shine, NoPaint, 0, 70)>>

gem(t, i) == GemShapes(GemPoints(i), GemCentre(i), t)

\* a = ((i + 0.5) * 45 - 90) * Math.PI / 180, in quarter-degrees
BeadAngle(i) == Angle(i * 180 + 90 - 360, 0)

BeadCentre(i) == OnCircle(242, BeadAngle(i))

bead(t, i) == <<Circle(BeadCentre(i), 70, t.light, t.vdark, Px(1), 100)>>

\* <defs><radialGradient id="gemGrad" .../></defs>: paints nothing itself
GemGradDefs == [tag |-> "defs", id |-> "gemGrad"]

\* the content of the template string, for the palette t
GemBorderScene(t) ==
    <<GemGradDefs,
      Disc(252, t.vdark), Disc(249, t.dark), Disc(236, t.base), Disc(233, t.dark)>>
    \o Concat([k \in 1..8 |-> bead(t, k - 1)])
    \o Concat([k \in 1..8 |-> gem(t, k - 1)])

frameGemBorder(color) == svgWrap(GemBorderScene(toneVariants(color)))

(* Export: the registry literal                                            *)

\* the registry with its first two descriptors exchanged
FrameRegistry_Swapped ==
    <<[id |-> "double-ring",    label |-> "Double Ring", fn |-> "frameDoubleRing"],
      [id |-> "simple-ring",    label |-> "Simple Ring", fn |-> "frameSimpleRing"],
      [id |-> "rope-twist",     label |-> "Rope Twist",  fn |-> "frameRopeTwist"],
      [id |-> "ornate-fantasy", label |-> "Ornate",      fn |-> "frameOrnateFantasy"],
      [id |-> "riveted-metal",  label |-> "Riveted",     fn |-> "frameRivetedMetal"],
      [id |-> "gem-border",     label |-> "Gems",        fn |-> "frameGemBorder"]>>

FrameRegistry ==
    <<[id |-> "simple-ring",    label |-> "Simple Ring", fn |-> "frameSimpleRing"],
      [id |-> "double-ring",    label |-> "Double Ring", fn |-> "frameDoubleRing"],
      [id |-> "rope-twist",     label |-> "Rope Twist",  fn |-> "frameRopeTwist"],
      [id |-> "ornate-fantasy", label |-> "Ornate",      fn |-> "frameOrnateFantasy"],
      [id |-> "riveted-metal",  label |-> "Riveted",     fn |-> "frameRivetedMetal"],
      [id |-> "gem-border",     label |-> "Gems",        fn |-> "frameGemBorder"]>>

\* generators that keep the accent of the previous successful call in a
\* module-level variable and use it instead of their argument
CallGenerator_Sticky(fn, color) ==
    CASE fn = "frameSimpleRing" ->
            frameSimpleRing(IF outcome.kind = "image" THEN outcome.color ELSE color)
      [] fn = "frameDoubleRing" ->
            frameDoubleRing(IF outcome.kind = "image" THEN outcome.color ELSE color)
      [] fn = "frameRopeTwist" ->
            frameRopeTwist(IF outcome.kind = "image" THEN outcome.color ELSE color)
      [] fn = "frameOrnateFantasy" ->
            frameOrnateFantasy(IF outcome.kind = "image" THEN outcome.color ELSE color)
      [] fn = "frameRivetedMetal" ->
            frameRivetedMetal(IF outcome.kind = "image" THEN outcome.color ELSE color)
      [] fn = "frameGemBorder" ->
            frameGemBorder(IF outcome.kind = "image" THEN outcome.color ELSE color)

\* the call fn(color) of a registered generator
CallGenerator(fn, color) ==
    CASE fn = "frameSimpleRing"    -> frameSimpleRing(color)
      [] fn = "frameDoubleRing"    -> frameDoubleRing(color)
      [] fn = "frameRopeTwist"     -> frameRopeTwist(color)
      [] fn = "frameOrnateFantasy" -> frameOrnateFantasy(color)
      [] fn = "frameRivetedMetal"  -> frameRivetedMetal(color)
      [] fn = "frameGemBorder"     -> frameGemBorder(color)

------------------------------------------------------------------------------
(* Bounded inputs of the tone derivation                                   *)

\* number of equal steps the channel range 0..255 is cut into
ChannelLevels == 8

\* the grid values and, beside each, its successor: neighbouring channel
\* values are what brings a hue within half a degree of 360
Channels ==
    {(i * 255) \div ChannelLevels : i \in 0..ChannelLevels}
    \cup {((i * 255) \div ChannelLevels) + 1 : i \in 0..(ChannelLevels - 1)}

\* what <input type="color"> delivers for the channels (R, G, B)
ColourOf(R, G, B) ==
    <<"#">> \o padStart(toString16(R), 2, "0") \o padStart(toString16(G), 2, "0")
            \o padStart(toString16(B), 2, "0")

\* the colours named in app.js and in the documented scenarios
DefaultColour == <<"#", "c", "0", "9", "2", "2", "a">>
NamedColours ==
    {DefaultColour,
     <<"#", "C", "0", "9", "2", "2", "A">>,
     <<"#", "F", "F", "0", "0", "0", "0">>,
     <<"#", "2", "A", "6", "F", "C", "0">>}

\* no Math.round of hexToHSL is handed an exact tie
ExactHSL(R, G, B, M, m) ==
    M # m =>
        /\ ~IsTie(HueFraction(R, G, B, M, M - m)[1], M - m)
        /\ ~IsTie(SatFraction(M, m)[1], SatFraction(M, m)[2])

\* no Math.round of the five hslToHex calls is handed an exact tie
ExactTones(a) ==
    \A t \in Tones : \A n \in {0, 8, 4} :
        ~IsTie(ChannelNumerator(n, a[t][1], a[t][2], a[t][3]), 20000)

ExactChannels(c) == ExactHSL(c[1], c[2], c[3], c[4], c[5])

\* no Math.round of the derivation of hx is handed an exact tie
ExactlyRounded(hx) == ExactChannels(ParsedChannels(hx)) /\ ExactTones(toneArguments(hx))

ToneInputs ==
    {c \in {ColourOf(R, G, B) : R \in Channels, G \in Channels, B \in Channels}
           \cup NamedColours : ExactlyRounded(c)}

------------------------------------------------------------------------------
(* What the browser makes of the document (svgToImage, then drawImage): a  *)
(* point of the image shows paint when a child of the group paints it and  *)
(* the group's mask, if any, has luminance there.                          *)

Sq(x) == x * x
Dist2(p, q) == Sq(p[1] - q[1]) + Sq(p[2] - q[2])

HalfStroke(sh) == IF sh.stroke = NoPaint THEN 0 ELSE sh.sw \div 2

\* how far the stroke of a polygon reaches beyond a vertex: a mitre join,
\* cut at the default stroke-miterlimit of 4 half-widths
MiterReach(sh) == 4 * HalfStroke(sh)

Range(f) == {f[i] : i \in DOMAIN f}
MinOf(S) == CHOOSE x \in S : \A y \in S : x <= y
MaxOf(S) == CHOOSE x \in S : \A y \in S : x >= y

\* p is within the box around the points pts, widened by w on every side
InBox(p, pts, w) ==
    /\ p[1] >= MinOf({q[1] : q \in Range(pts)}) - w
    /\ p[1] <= MaxOf({q[1] : q \in Range(pts)}) + w
    /\ p[2] >= MinOf({q[2] : q \in Range(pts)}) - w
    /\ p[2] <= MaxOf({q[2] : q \in Range(pts)}) + w

(* Whether the element can put paint on p.  Exact for circles and          *)
(* rectangles.  A quadratic curve lies in the hull of its three points and *)
(* a polygon in the hull of its vertices, so for those the test is the     *)
(* surrounding box widened by the stroke: it never misses a painted point. *)
MayPaint(sh, p) ==
    CASE sh.tag = "circle" ->
            \/ /\ sh.fill # NoPaint
               /\ Dist2(p, <<sh.cx, sh.cy>>) <= Sq(sh.r)
            \/ /\ sh.stroke # NoPaint
               /\ Dist2(p, <<sh.cx, sh.cy>>) <= Sq(sh.r + HalfStroke(sh))
               /\ Dist2(p, <<sh.cx, sh.cy>>) >= Sq(sh.r - HalfStroke(sh))
      [] sh.tag = "rect" ->
            /\ sh.fill # NoPaint
            /\ p[1] \in 0..sh.width /\ p[2] \in 0..sh.height
      [] sh.tag = "path" ->
            sh.stroke # NoPaint /\ InBox(p, sh.d, HalfStroke(sh))
      [] sh.tag = "polygon" ->
            (sh.fill # NoPaint \/ sh.stroke # NoPaint)
            /\ InBox(p, sh.points, MiterReach(sh))
      [] OTHER -> FALSE

\* luminance (percent) of a mask at p: its children are painted in order,
\* white or black, over transparent black
RECURSIVE Luminance(_, _)
Luminance(children, p) ==
    IF children = <<>> THEN 0
    ELSE LET top == children[Len(children)]
         IN  IF MayPaint(top, p) THEN (IF top.fill = White THEN 100 ELSE 0)
             ELSE Luminance(SubSeq(children, 1, Len(children) - 1), p)

MaskNamed(svg, id) == CHOOSE m \in Range(svg.masks) : m.id = id

\* the group g of the document lets its paint through at p
Unmasked(svg, g, p) ==
    g.mask = "" \/ Luminance(MaskNamed(svg, g.mask).children, p) > 0

\* some paint of the document shows at p
Visible(svg, p) ==
    \E g \in Range(svg.children) :
        /\ Unmasked(svg, g, p)
        /\ \E sh \in Range(g.children) : MayPaint(sh, p)

\* the scene, whatever the mask does to it, paints p
ScenePaints(svg, p) ==
    \E g \in Range(svg.children) : \E sh \in Range(g.children) : MayPaint(sh, p)

------------------------------------------------------------------------------
(* Bounded inputs of the frame engine                                      *)

\* accent colours handed to the generators
FrameColours ==
    {DefaultColour,
     <<"#", "F", "F", "0", "0", "0", "0">>,
     <<"#", "2", "A", "6", "F", "C", "0">>}

\* frame indices handed to renderThumb: the registered ones and the first
\* index past the end of the registry
FrameIndices == 0..Len(FrameRegistry)

\* image loads of one canvas that may be in flight together
MaxPending == 1

------------------------------------------------------------------------------
(* Numbers of app.js.  A double is held as the exact fraction <<n, d>> in  *)
(* lowest terms with d > 0; the bounded pointer positions and image sizes  *)
(* keep every square root the code takes rational.                         *)

RECURSIVE GCD(_, _)
GCD(a, b) == IF b = 0 THEN a ELSE GCD(b, a % b)

Abs(x) == IF x < 0 THEN 0 - x ELSE x

Lowest(n, d, g) == <<n \div g, d \div g>>

\* n / d for d > 0, in lowest terms
Frac(n, d) == Lowest(n, d, GCD(Abs(n), d))

Whole(n) == <<n, 1>>

RNeg(x) == <<0 - x[1], x[2]>>

\* x + y over the least common denominator, g the GCD of the denominators
RSum(x, y, g) == Frac(x[1] * (y[2] \div g) + y[1] * (x[2] \div g), (x[2] \div g) * y[2])
RAdd(x, y) == RSum(x, y, GCD(x[2], y[2]))
RSub(x, y) == RAdd(x, RNeg(y))

\* x * y, the cross factors cancelled before the products are formed
RCross(a, b, c, d, g1, g2) ==
    <<(a \div g1) * (c \div g2), (b \div g2) * (d \div g1)>>
RMul(x, y) ==
    RCross(x[1], x[2], y[1], y[2], GCD(Abs(x[1]), y[2]), GCD(Abs(y[1]), x[2]))

\* x / y for y > 0
RDiv(x, y) == RMul(x, <<y[2], y[1]>>)

RLess(x, y) == RSub(x, y)[1] < 0
RAbs(x) == <<Abs(x[1]), x[2]>>
RMax(x, y) == IF RLess(x, y) THEN y ELSE x
RMin(x, y) == IF RLess(y, x) THEN y ELSE x

------------------------------------------------------------------------------
(* The state object of app.js and the canvases it is drawn on              *)

\* state.image = null
NoImage == [width |-> 0, height |-> 0]

InitialState ==
    [image |-> NoImage, panX |-> Whole(0), panY |-> Whole(0), zoom |-> Whole(1),
     frameIndex |-> 0, color |-> DefaultColour,
     mode |-> "none", resizeCorner |-> -1,
     resizeStartZoom |-> Whole(1),
     resizeFixedCorner |-> <<Whole(0), Whole(0)>>,
     resizeActiveCorner |-> <<Whole(0), Whole(0)>>,
     resizeMouseStartX |-> Whole(0), resizeMouseStartY |-> Whole(0),
     lastX |-> Whole(0), lastY |-> Whole(0),
     lastPinchDist |-> Nil]

\* no event handled yet
NoHistory ==
    [events |-> 0, last |-> [type |-> "none", at |-> <<>>],
     dragStart |-> InitialState, pinched |-> FALSE, twoTouchDist |-> Nil]
\* events: how many were handled;  last: the latest, with its client points;
\* dragStart: the state the latest mousedown left;  pinched: the latest
\* touchstart with one or two touches had two;  twoTouchDist: the distance
\* of the touches of the latest touchstart or touchmove that had two

AppIdle ==
    /\ state = InitialState
    /\ preview = <<>>
    /\ renders = <<>>
    /\ overlay = <<>>
    /\ history = NoHistory

------------------------------------------------------------------------------
(* The engine and its caller renderThumb as a state machine                *)

\* tctx after clearRect and the fill of the '#2a2a3a' disc
Background == [tag |-> "background"]

NoOutcome == [kind |-> "none", sel |-> -1, color |-> <<>>]

FrameIdle ==
    /\ FRAMES = FrameRegistry
    /\ canvas = <<>>
    /\ pending = <<>>
    /\ outcome = NoOutcome

ToneIdle ==
    /\ hex = DefaultColour
    /\ hsl = Nil
    /\ toneArgs = Nil
    /\ palette = Nil
    /\ called = {}

Init == FrameIdle /\ ToneIdle /\ AppIdle

(* renderThumb(tc, frameIndex, color) up to its await: the canvas is       *)
(* cleared and the background disc filled, then FRAMES[frameIndex].fn is   *)
(* called.  For an index outside the registry FRAMES[frameIndex] is        *)
(* undefined and reading .fn throws a TypeError, outside the try block:    *)
(* the promise of renderThumb rejects and nothing more is drawn.           *)
drawThumb(frameIndex, color) ==
    LET registered == (frameIndex + 1) \in DOMAIN FRAMES
    IN  /\ registered => Len(pending) < MaxPending
        /\ canvas' = <<Background>>
        /\ IF registered
           THEN /\ pending' = Append(pending,
                     [tag |-> "image", sel |-> frameIndex, color |-> color,
                      svg |-> CallGenerator(FRAMES[frameIndex + 1].fn, color)])
                /\ outcome' = [kind |-> "image", sel |-> frameIndex, color |-> color]
           ELSE /\ pending' = pending
                /\ outcome' = [kind |-> "TypeError", sel |-> frameIndex, color |-> color]

\* a call of renderThumb on its own: nothing else of the page changes
renderThumb(frameIndex, color) ==
    drawThumb(frameIndex, color) /\ UNCHANGED <<FRAMES, toneVars, appVars>>

(* The continuation of renderThumb after await svgToImage(svgStr): img     *)
(* loads, the promise resolves and the image is drawn over whatever the    *)
(* canvas holds by then.  Loads complete in any order.  The documents the  *)
(* generators return are well formed, so img.onerror is not taken.         *)
thumbLoaded(k) ==
    /\ k \in DOMAIN pending
    /\ canvas' = Append(canvas, pending[k])
    /\ pending' = SubSeq(pending, 1, k - 1) \o SubSeq(pending, k + 1, Len(pending))
    /\ UNCHANGED <<FRAMES, outcome, toneVars, appVars>>

CallRenderThumb == \E i \in FrameIndices : \E c \in FrameColours : renderThumb(i, c)

ImageLoaded == \E k \in 1..MaxPending : thumbLoaded(k)

Next == CallRenderThumb \/ ImageLoaded

Spec == Init /\ [][Next]_vars

------------------------------------------------------------------------------
(* The tone derivation as a state machine: one call of each helper on the  *)
(* input drawn at the start.                                               *)

ToneInit ==
    /\ hex \in ToneInputs
    /\ hsl = Nil
    /\ toneArgs = Nil
    /\ palette = Nil
    /\ called = {}
    /\ FrameIdle
    /\ AppIdle

CallHexToHSL ==
    /\ "hexToHSL" \notin called
    /\ hsl' = hexToHSL(hex)
    /\ called' = called \cup {"hexToHSL"}
    /\ UNCHANGED <<hex, toneArgs, palette, frameVars, appVars>>

CallToneVariants ==
    /\ "toneVariants" \notin called
    /\ toneArgs' = toneArguments(hex)
    /\ palette' = toneVariants(hex)
    /\ called' = called \cup {"toneVariants"}
    /\ UNCHANGED <<hex, hsl, frameVars, appVars>>

ToneNext == CallHexToHSL \/ CallToneVariants

SpecTone == ToneInit /\ [][ToneNext]_vars

------------------------------------------------------------------------------
(* Properties of the tone derivation (checked under SpecTone)              *)

BothCalled == called = {"hexToHSL", "toneVariants"}

\* a '#' followed by six lower-case hexadecimal digits
ValidHexColour(c) ==
    /\ Len(c) = 7
    /\ c[1] = "#"
    /\ \A i \in 2..7 : \E j \in 1..16 : HexDigits[j] = c[i]

Achromatic(hx) ==
    /\ parseInt16(slice(hx, 1, 3)) = parseInt16(slice(hx, 3, 5))
    /\ parseInt16(slice(hx, 3, 5)) = parseInt16(slice(hx, 5, 7))

(* C2: for every valid accent colour the lightness values used for the     *)
(* tones satisfy light >= base >= dark >= vdark and shine >= light.         *)
C2_PaletteOrdering ==
    "toneVariants" \in called =>
        /\ toneArgs.light[3] >= toneArgs.base[3]
        /\ toneArgs.base[3] >= toneArgs.dark[3]
        /\ toneArgs.dark[3] >= toneArgs.vdark[3]
        /\ toneArgs.shine[3] >= toneArgs.light[3]

(* C6: with (h, s, l) the result of hexToHSL, toneVariants uses             *)
(* light = (max(s-5,0), min(l+22,92)), dark = (min(s+5,100), max(l-22,8)),  *)
(* vdark = (min(s+10,100), max(l-38,4)), shine = (max(s-15,0),              *)
(* min(l+38,96)); every saturation and lightness it uses lies in 0..100 and *)
(* every tone comes out as '#' and six hexadecimal digits.                  *)
C6_ToneDerivation ==
    BothCalled =>
        LET s == hsl[2]
            l == hsl[3]
        IN  /\ s \in 0..100 /\ l \in 0..100
            /\ toneArgs.base[2] = s /\ toneArgs.base[3] = l
            /\ toneArgs.light[2] = (IF s < 5 THEN 0 ELSE s - 5)
            /\ toneArgs.light[3] = (IF l > 70 THEN 92 ELSE l + 22)
            /\ toneArgs.dark[2] = (IF s > 95 THEN 100 ELSE s + 5)
            /\ toneArgs.dark[3] = (IF l < 30 THEN 8 ELSE l - 22)
            /\ toneArgs.vdark[2] = (IF s > 90 THEN 100 ELSE s + 10)
            /\ toneArgs.vdark[3] = (IF l < 42 THEN 4 ELSE l - 38)
            /\ toneArgs.shine[2] = (IF s < 15 THEN 0 ELSE s - 15)
            /\ toneArgs.shine[3] = (IF l > 58 THEN 96 ELSE l + 38)
            /\ \A t \in Tones :
                  /\ toneArgs[t][2] \in 0..100
                  /\ toneArgs[t][3] \in 0..100
                  /\ ValidHexColour(palette[t])

\* a saturated near-black accent: the ceilings of the saturation and the
\* floors of the lightness are all in force
C6_Witness ==
    /\ BothCalled
    /\ hsl[2] = 100 /\ hsl[3] < 8
    /\ toneArgs.vdark = <<hsl[1], 100, 4>>
    /\ toneArgs.dark = <<hsl[1], 100, 8>>

(* C7: for every 6-digit colour hexToHSL returns integers with hue in       *)
(* [0, 360), 360 excluded, and saturation and lightness in [0, 100].        *)
C7_HslRanges ==
    "hexToHSL" \in called =>
        /\ hsl[1] \in 0..359
        /\ hsl[2] \in 0..100
        /\ hsl[3] \in 0..100

(* C8: for every achromatic accent (red = green = blue) hexToHSL returns    *)
(* hue 0 and saturation 0 and toneVariants completes with five valid        *)
(* colours.                                                                 *)
C8_Achromatic ==
    (BothCalled /\ Achromatic(hex)) =>
        /\ hsl[1] = 0
        /\ hsl[2] = 0
        /\ DOMAIN palette = Tones
        /\ \A t \in Tones : ValidHexColour(palette[t])

C8_Witness ==
    /\ BothCalled
    /\ hex = <<"#", "0", "0", "0", "0", "0", "0">>
    /\ hsl = <<0, 0, 0>>
    /\ palette.base = <<"#", "0", "0", "0", "0", "0", "0">>
    /\ palette.vdark = <<"#", "0", "b", "0", "9", "0", "9">>

(* C9: the five tones are built with the hue hexToHSL returns for the       *)
(* accent; only saturation and lightness differ between them.               *)
C9_SharedHue ==
    BothCalled => \A t \in Tones : toneArgs[t][1] = hsl[1]

\* the default accent of app.js: hue 42, and five different (s, l) pairs
C9_Witness ==
    /\ BothCalled
    /\ hex = DefaultColour
    /\ hsl[1] = 42
    /\ Cardinality({<<toneArgs[t][2], toneArgs[t][3]>> : t \in Tones}) = 5

------------------------------------------------------------------------------
(* Sample points of the 512x512 image: on eight rays from the centre, at   *)
(* radii (in twentieths of a unit) that are multiples of a quarter unit,   *)
(* so that every sample is at exactly its radius from the centre.          *)

\* number of sampled radii, 8 units apart, counted from the centre outwards
SampleRings == 33

SampleRays ==
    {<<5, 0>>, <<0, 5>>, <<-5, 0>>, <<0, -5>>,
     <<3, 4>>, <<-4, 3>>, <<-3, -4>>, <<4, -3>>}

\* the centre, every eighth unit, and a quarter unit to each side of the
\* edge of the hole (232) and of the edge of the ring (256)
SampleRadii ==
    {Px(8 * k) : k \in 0..SampleRings}
        \cup {Px(HoleRadius) - 5, Px(HoleRadius) + 5, Px(256) - 5, Px(256) + 5}

PointAt(rho, ray) ==
    <<Centre[1] + (rho \div 5) * ray[1], Centre[2] + (rho \div 5) * ray[2]>>

SamplePoints == {PointAt(rho, ray) : rho \in SampleRadii, ray \in SampleRays}

\* the disc of radius r (units) around the centre holds the whole of sh,
\* the width of its stroke included
WithinRadius(sh, r) ==
    CASE sh.tag = "circle" ->
            /\ sh.r + HalfStroke(sh) <= Px(r)
            /\ Dist2(<<sh.cx, sh.cy>>, Centre) <= Sq(Px(r) - sh.r - HalfStroke(sh))
      [] sh.tag = "path" ->
            /\ HalfStroke(sh) <= Px(r)
            /\ \A q \in Range(sh.d) : Dist2(q, Centre) <= Sq(Px(r) - HalfStroke(sh))
      [] sh.tag = "polygon" ->
            /\ MiterReach(sh) <= Px(r)
            /\ \A q \in Range(sh.points) : Dist2(q, Centre) <= Sq(Px(r) - MiterReach(sh))
      [] OTHER -> TRUE

\* the scene of a document: the children of its groups
SceneShapes(svg) == UNION {Range(g.children) : g \in Range(svg.children)}

\* the image the latest successful call of a generator returned: renderThumb
\* appends it to the loads in flight
Rendered == pending # <<>>
LatestImage == pending[Len(pending)]

------------------------------------------------------------------------------
(* Properties of the frame engine (checked under Spec)                     *)

InHole(p) == Dist2(p, Centre) < Sq(Px(HoleRadius))
InRing(p) == Dist2(p, Centre) >= Sq(Px(HoleRadius)) /\ Dist2(p, Centre) <= Sq(Px(256))

(* C1: for each of the six generators and every accent colour the whole    *)
(* scene is inside the group masked by svgWrap, and no point at distance   *)
(* less than 232 from the centre (256,256), the centre included, shows any *)
(* paint in the output, whatever discs the scene paints there.             *)
C1_HoleTransparent ==
    Rendered =>
        /\ \A g \in Range(LatestImage.svg.children) : g.mask = "fm"
        /\ \A p \in SamplePoints : InHole(p) => ~Visible(LatestImage.svg, p)

\* a gem-border image: its discs paint the centre, the mask hides it there,
\* and the ring shows at radius 240
C1_Witness ==
    /\ Rendered
    /\ LatestImage.sel = 5
    /\ ScenePaints(LatestImage.svg, Centre)
    /\ ~Visible(LatestImage.svg, Centre)
    /\ Visible(LatestImage.svg, PointAt(Px(240), <<3, 4>>))

(* C3: the registry holds exactly 6 descriptors, in the order simple-ring, *)
(* double-ring, rope-twist, ornate-fantasy, riveted-metal, gem-border, with *)
(* pairwise distinct identifiers; a render of any of the six ends with an  *)
(* image, in flight or drawn; the registry is the same in every reachable  *)
(* state.                                                                  *)
C3_Registry ==
    /\ Len(FRAMES) = 6
    /\ [k \in 1..6 |-> FRAMES[k].id] =
           <<"simple-ring", "double-ring", "rope-twist",
             "ornate-fantasy", "riveted-metal", "gem-border">>
    /\ [k \in 1..6 |-> FRAMES[k].fn] =
           <<"frameSimpleRing", "frameDoubleRing", "frameRopeTwist",
             "frameOrnateFantasy", "frameRivetedMetal", "frameGemBorder">>
    /\ Cardinality({FRAMES[k].id : k \in 1..6}) = 6
    /\ (outcome.kind # "none" /\ outcome.sel \in 0..5) =>
           /\ outcome.kind = "image"
           /\ \E im \in Range(pending) \cup Range(canvas) :
                 /\ im.tag = "image"
                 /\ im.sel = outcome.sel
                 /\ im.color = outcome.color
                 /\ im.svg.tag = "svg"
                 /\ SceneShapes(im.svg) # {}

\* the last registered frame rendered and its image drawn on the canvas
C3_Witness ==
    /\ outcome.kind = "image"
    /\ outcome.sel = 5
    /\ Len(canvas) = 2
    /\ canvas[2].tag = "image"
    /\ canvas[2].sel = 5

(* C4: a render with a selector outside the registry ends with the error   *)
(* FrameNotFound and leaves no output, partial or fallback.                *)
C4_FrameNotFound ==
    (outcome.kind # "none" /\ outcome.sel \notin 0..5) =>
        /\ outcome.kind = "FrameNotFound"
        /\ canvas = <<>>

\* the images in flight and the images drawn
Images == {im \in Range(pending) \cup Range(canvas) : im.tag = "image"}

C10_RingConfined ==
    Rendered =>
        /\ \A sh \in SceneShapes(LatestImage.svg) : WithinRadius(sh, 256)
        /\ \A p \in SamplePoints : Visible(LatestImage.svg, p) => InRing(p)

\* a rope-twist image: a strand of stroke-width 9 reaches beyond the outer
\* disc of radius 252 yet stays inside 256, paint shows at radius 248 and
\* none at radius 256.25
C10_Witness ==
    /\ Rendered
    /\ LatestImage.sel = 2
    /\ \E sh \in SceneShapes(LatestImage.svg) :
          sh.tag = "path" /\ sh.sw = Px(9) /\ WithinRadius(sh, 256)
    /\ Visible(LatestImage.svg, PointAt(Px(248), <<5, 0>>))
    /\ ~Visible(LatestImage.svg, PointAt(Px(256) + 5, <<5, 0>>))

------------------------------------------------------------------------------
(* The colour a point of the image shows: the paint of the topmost element  *)
(* of the scene that covers it (the frames paint opaque fills and strokes   *)
(* over one another in document order).                                     *)

\* the paint sh puts on p, given that it covers p
PaintOf(sh, p) ==
    IF sh.tag = "circle" /\ sh.stroke # NoPaint
           /\ Dist2(p, <<sh.cx, sh.cy>>) >= Sq(sh.r - HalfStroke(sh))
    THEN sh.stroke
    ELSE IF sh.fill # NoPaint THEN sh.fill ELSE sh.stroke

RECURSIVE TopPaint(_, _)
TopPaint(children, p) ==
    IF children = <<>> THEN NoPaint
    ELSE IF MayPaint(children[Len(children)], p)
         THEN PaintOf(children[Len(children)], p)
         ELSE TopPaint(SubSeq(children, 1, Len(children) - 1), p)

\* the colour the document shows at a visible point p
ColourAt(svg, p) == TopPaint(svg.children[1].children, p)

\* colour c1 is darker than colour c2: its HSL lightness is lower
Darker(c1, c2) == hexToHSL(c1)[3] < hexToHSL(c2)[3]

Red == <<"#", "F", "F", "0", "0", "0", "0">>

\* the image at hand is the simple ring rendered for #FF0000
SimpleRingRed == Rendered /\ LatestImage.sel = 0 /\ LatestImage.color = Red

(* C11 as stated: in the simple ring for #FF0000 the point at radius 249,   *)
(* at any angle, is painted, with a darker red than the point at radius    *)
(* 240.                                                                    *)
C11_Radius249Darker ==
    SimpleRingRed =>
        \A ray \in SampleRays :
            /\ Visible(LatestImage.svg, PointAt(Px(249), ray))
            /\ Visible(LatestImage.svg, PointAt(Px(240), ray))
            /\ Darker(ColourAt(LatestImage.svg, PointAt(Px(249), ray)),
                      ColourAt(LatestImage.svg, PointAt(Px(240), ray)))

(* C11 amended: the outermost disc has radius 248, so nothing is painted   *)
(* at radius 249; the dark/base/dark layering shows inside it: at any      *)
(* angle the point at radius 244 is painted with the dark tone, a darker   *)
(* red than the base tone at radius 240 and at radius 237, and the point   *)
(* at radius 233 is dark again.                                            *)
C11_DarkBaseDark ==
    SimpleRingRed =>
        \A ray \in SampleRays :
            /\ ~Visible(LatestImage.svg, PointAt(Px(249), ray))
            /\ \A r \in {244, 240, 237, 233} : Visible(LatestImage.svg, PointAt(Px(r), ray))
            /\ ColourAt(LatestImage.svg, PointAt(Px(244), ray)) = toneVariants(Red).dark
            /\ ColourAt(LatestImage.svg, PointAt(Px(240), ray)) = toneVariants(Red).base
            /\ ColourAt(LatestImage.svg, PointAt(Px(237), ray)) = toneVariants(Red).base
            /\ ColourAt(LatestImage.svg, PointAt(Px(233), ray)) = toneVariants(Red).dark
            /\ Darker(ColourAt(LatestImage.svg, PointAt(Px(244), ray)),
                      ColourAt(LatestImage.svg, PointAt(Px(240), ray)))

\* the simple ring for #FF0000 rendered: dark is #8f0000 at radius 244 and
\* base is #ff0000 at radius 240
C11_Witness ==
    /\ SimpleRingRed
    /\ ColourAt(LatestImage.svg, PointAt(Px(244), <<3, 4>>)) =
           <<"#", "8", "f", "0", "0", "0", "0">>
    /\ ColourAt(LatestImage.svg, PointAt(Px(240), <<3, 4>>)) =
           <<"#", "f", "f", "0", "0", "0", "0">>

------------------------------------------------------------------------------
(* The documented accent #C0922A                                           *)

Gold == <<"#", "C", "0", "9", "2", "2", "A">>

GoldConverted == hex = Gold /\ "hexToHSL" \in called

(* C12 as stated: for the accent #C0922A the hue computed by the tone      *)
(* deriver lies between 38 and 40 degrees.                                 *)
C12_HueBetween38And40 == GoldConverted => hsl[1] \in 38..40

(* C12 amended: for the accent #C0922A (channels 192, 146, 42) the hue     *)
(* computed by the tone deriver is 42 degrees, the rounding of             *)
(* 60 * (146 - 42) / (192 - 42) = 41.6.                                    *)
C12_HueIs42 ==
    GoldConverted =>
        /\ hsl[1] = 42
        /\ HueFraction(192, 146, 42, 192, 150) = <<6240, 150>>

\* hexToHSL('#C0922A') has returned [42, 64, 46]
C12_Witness == GoldConverted /\ hsl = <<42, 64, 46>>

------------------------------------------------------------------------------
(* Layout of the gem border, read off the emitted document.  Coordinates   *)
(* are emitted with one decimal, so a position is compared with a          *)
(* tolerance of a tenth of a unit (2 twentieths).                          *)

\* unit steps in the directions -90, -45, 0, ... 225 degrees (y points down)
Compass ==
    <<<<0, -1>>, <<1, -1>>, <<1, 0>>, <<1, 1>>,
      <<0, 1>>, <<-1, 1>>, <<-1, 0>>, <<-1, -1>>>>

CentreOf(sh) == <<sh.cx, sh.cy>>

\* c is at distance r (units) from the centre of the canvas
OnRadius(c, r) ==
    Dist2(c, Centre) - Sq(Px(r)) \in (0 - 4 * Px(r))..(4 * Px(r))

\* c lies from the centre of the canvas in the direction d
AtAngle(c, d) ==
    /\ (c[1] - Centre[1]) * d[2] - (c[2] - Centre[2]) * d[1] \in -4..4
    /\ (c[1] - Centre[1]) * d[1] + (c[2] - Centre[2]) * d[2] > 0

\* b is at the midpoint angle between g1 and g2, all three on one circle
Midway(b, g1, g2) ==
    /\ Dist2(b, g1) - Dist2(b, g2) \in -16000..16000
    /\ Dist2(b, g1) < Dist2(g1, g2)

IsGemBody(sh) == sh.tag = "polygon" /\ sh.stroke # NoPaint
IsGemSheen(sh) == sh.tag = "polygon" /\ sh.fill = GemGradPaint
IsGemDot(sh) == sh.tag = "circle" /\ sh.r = GemDotRadius
IsBead(sh) == sh.tag = "circle" /\ sh.r = 70 /\ sh.stroke # NoPaint

GemBorderRendered == Rendered /\ LatestImage.sel = 5

\* the scene of the image at hand, in document order
LatestScene == LatestImage.svg.children[1].children

(* C13: the gem border holds exactly 8 gems and exactly 8 beads for any     *)
(* colour; gem i (i = 0..7) is centred on radius 242 at angle -90 + 45 i    *)
(* degrees, the first at the top; bead i is on the same radius at the       *)
(* midpoint angle between gem i and gem i+1 (mod 8).                        *)
C13_GemLayout ==
    GemBorderRendered =>
        LET bodies == SelectSeq(LatestScene, IsGemBody)
            sheens == SelectSeq(LatestScene, IsGemSheen)
            dots   == SelectSeq(LatestScene, IsGemDot)
            beads  == SelectSeq(LatestScene, IsBead)
        IN  /\ Len(bodies) = 8 /\ Len(sheens) = 8 /\ Len(dots) = 8 /\ Len(beads) = 8
            /\ CentreOf(dots[1]) = <<Px(256), Px(14)>>
            /\ \A i \in 1..8 :
                  /\ OnRadius(CentreOf(dots[i]), 242)
                  /\ AtAngle(CentreOf(dots[i]), Compass[i])
                  /\ sheens[i].points = bodies[i].points
                  /\ \A v \in Range(bodies[i].points) :
                        Dist2(v, CentreOf(dots[i])) <= Sq(Px(8))
                  /\ OnRadius(CentreOf(beads[i]), 242)
                  /\ Midway(CentreOf(beads[i]), CentreOf(dots[i]),
                            CentreOf(dots[(i % 8) + 1]))

\* the gem border for #2A6FC0: the third gem is at the right-hand side and
\* the first bead up and to the right of the centre
C13_Witness ==
    /\ GemBorderRendered
    /\ LatestImage.color = <<"#", "2", "A", "6", "F", "C", "0">>
    /\ CentreOf(SelectSeq(LatestScene, IsGemDot)[3]) = <<Px(498), Px(256)>>
    /\ CentreOf(SelectSeq(LatestScene, IsBead)[1])[1] > Px(256)
    /\ CentreOf(SelectSeq(LatestScene, IsBead)[1])[2] < Px(256)


------------------------------------------------------------------------------
(* The preview canvas.  render() clears ctx, draws the photo (or the       *)
(* placeholder) inside the clip circle, builds the frame SVG from          *)
(* state.frameIndex and state.color as they are at the call, and draws the *)
(* frame when svgToImage resolves; nothing is compared with the state at   *)
(* that later time.  A frame layer is recorded by the generator and the    *)
(* arguments it was built from.                                            *)

\* frames of one canvas that may be loading together
MaxRenders == 2

\* what <input type="color"> can deliver
PickerColours == {DefaultColour, ColourOf(255, 0, 0)}

\* the layer render() draws synchronously
PhotoLayer(st) ==
    IF st.image = NoImage
    THEN [tag |-> "placeholder"]
    ELSE [tag |-> "photo", image |-> st.image,
          panX |-> st.panX, panY |-> st.panY, zoom |-> st.zoom]

\* the frame render() starts loading
FrameLayer(st) ==
    [tag |-> "frame", fn |-> FRAMES[st.frameIndex + 1].fn,
     frameIndex |-> st.frameIndex, color |-> st.color]

\* getCorners(): TL, TR, BL, BR of the displayed image
Corners(x, y, w, h) ==
    <<<<x, y>>, <<RAdd(x, w), y>>, <<x, RAdd(y, h)>>, <<RAdd(x, w), RAdd(y, h)>>>>
getCorners(st) ==
    IF st.image = NoImage
    THEN <<>>
    ELSE Corners(st.panX, st.panY, RMul(Whole(st.image.width), st.zoom),
                 RMul(Whole(st.image.height), st.zoom))

SIZE == 512
HANDLE_R == 8
HANDLE_HIT == 16
HandlePad == HANDLE_R + 2

clampHandle_Unclamped(x, y) == <<x, y>>

clampHandle(x, y) ==
    <<RMax(Whole(HandlePad), RMin(Whole(SIZE - HandlePad), x)),
      RMax(Whole(HandlePad), RMin(Whole(SIZE - HandlePad), y))>>

ClampAll(corners) ==
    [i \in DOMAIN corners |-> clampHandle(corners[i][1], corners[i][2])]

\* renderOverlay(): the centres of the handles drawn on the overlay canvas
renderOverlay(st) == ClampAll(getCorners(st))

\* scheduleRender() with the state st the handler leaves behind
scheduleRender(st) ==
    /\ Len(renders) < MaxRenders
    /\ preview' = <<PhotoLayer(st)>>
    /\ renders' = Append(renders, FrameLayer(st))
    /\ overlay' = renderOverlay(st)

\* buildFramePicker().then(() => scheduleRender()): the thumbnails are
\* started and the first render follows before any event is handled
pageReady ==
    /\ preview = <<>>
    /\ renders = <<>>
    /\ drawThumb(0, state.color)
    /\ scheduleRender(state)
    /\ UNCHANGED <<state, history, FRAMES, toneVars>>

\* the click listener of thumbnail i
clickThumb(i) ==
    /\ preview # <<>>
    /\ state' = [state EXCEPT !.frameIndex = i]
    /\ scheduleRender([state EXCEPT !.frameIndex = i])
    /\ UNCHANGED <<history, frameVars, toneVars>>

\* the input listener of the colour picker
colorInput(value) ==
    /\ preview # <<>>
    /\ state' = [state EXCEPT !.color = value]
    /\ scheduleRender([state EXCEPT !.color = value])
    /\ drawThumb(0, value)
    /\ UNCHANGED <<history, FRAMES, toneVars>>

\* the continuation of render() after await svgToImage(svgStr), for the
\* k-th frame in flight; loads complete in any order
frameLoaded(k) ==
    /\ k \in DOMAIN renders
    /\ preview' = Append(preview, renders[k])
    /\ renders' = SubSeq(renders, 1, k - 1) \o SubSeq(renders, k + 1, Len(renders))
    /\ UNCHANGED <<state, overlay, history, frameVars, toneVars>>

ClickThumb == \E i \in 0..(Len(FRAMES) - 1) : clickThumb(i)
ColorInput == \E value \in PickerColours : colorInput(value)
FrameLoaded == \E k \in 1..MaxRenders : frameLoaded(k)

RenderNext == pageReady \/ ClickThumb \/ ColorInput \/ FrameLoaded \/ ImageLoaded

SpecRender == Init /\ [][RenderNext]_vars

\* C14: once no frame is loading, every frame drawn on the preview since it
\* was last cleared was generated from the current state.frameIndex and
\* state.color, and a frame is the topmost layer
C14_PreviewShowsCurrentFrame ==
    (renders = <<>> /\ preview # <<>>) =>
        /\ preview[Len(preview)].tag = "frame"
        /\ \A k \in DOMAIN preview :
              preview[k].tag = "frame" =>
                  /\ preview[k].frameIndex = state.frameIndex
                  /\ preview[k].color = state.color


------------------------------------------------------------------------------
(* Pointer geometry of app.js.  Events carry client coordinates; the       *)
(* handlers work in canvas pixels.                                         *)

CLIP_R == 232
CX == SIZE \div 2
CY == SIZE \div 2

\* state.zoom is never set below this by the wheel, pinch and resize paths
MinZoom == Frac(1, 20)

\* overlay.getBoundingClientRect(): the canvas is shown at its own size,
\* eight CSS pixels from the left and top of the viewport
Rect == [left |-> 8, top |-> 8, width |-> 512]
cScale == RDiv(Whole(SIZE), Whole(Rect.width))

canvasCoords(clientX, clientY) ==
    <<RMul(RSub(Whole(clientX), Whole(Rect.left)), cScale),
      RMul(RSub(Whole(clientY), Whole(Rect.top)), cScale)>>

\* dx * dx + dy * dy <= HANDLE_HIT * HANDLE_HIT
WithinHit(dx, dy) ==
    /\ ~RLess(Whole(HANDLE_HIT), RAbs(dx))
    /\ ~RLess(Whole(HANDLE_HIT), RAbs(dy))
    /\ ~RLess(Whole(HANDLE_HIT * HANDLE_HIT), RAdd(RMul(dx, dx), RMul(dy, dy)))

RECURSIVE FirstHit(_, _, _)
FirstHit(handles, m, i) ==
    IF i > Len(handles) THEN -1
    ELSE IF WithinHit(RSub(m[1], handles[i][1]), RSub(m[2], handles[i][2]))
         THEN i - 1
         ELSE FirstHit(handles, m, i + 1)

hitTestCorner_Unclamped(st, m) == FirstHit(getCorners(st), m, 1)

\* hitTestCorner(mx, my) with m = <<mx, my>>
hitTestCorner(st, m) == FirstHit(ClampAll(getCorners(st)), m, 1)

FitTo(st, scale) ==
    [st EXCEPT !.zoom = scale,
               !.panX = RSub(Whole(CX), RDiv(RMul(Whole(st.image.width), scale), Whole(2))),
               !.panY = RSub(Whole(CY), RDiv(RMul(Whole(st.image.height), scale), Whole(2)))]

fitImage(st) ==
    IF st.image = NoImage THEN st
    ELSE FitTo(st, RMax(RDiv(Whole(CLIP_R * 2), Whole(st.image.width)),
                        RDiv(Whole(CLIP_R * 2), Whole(st.image.height))))

------------------------------------------------------------------------------
(* Resize math.  Math.sqrt is taken of sums of squares; the model follows  *)
(* applyResize on the pointer positions for which the quotient of the two  *)
(* diagonals is a fraction, found on the four components scaled to         *)
(* integers without a common factor.                                       *)

\* largest component whose square is formed
MaxComponent == 30000

LCM(a, b) == (a \div GCD(a, b)) * b

RECURSIVE ISqrtFrom(_, _)
ISqrtFrom(n, s) ==
    IF (s + n \div s) \div 2 < s THEN ISqrtFrom(n, (s + n \div s) \div 2) ELSE s
\* floor of the square root of n >= 0
ISqrt(n) == IF n = 0 THEN 0 ELSE ISqrtFrom(n, n)
IsSquare(n) == ISqrt(n) * ISqrt(n) = n

Vec(p, q) == <<RSub(p[1], q[1]), RSub(p[2], q[2])>>

\* (newAX, newAY): the active corner shifted by the mouse delta
DraggedCorner(st, m) ==
    <<RAdd(st.resizeActiveCorner[1], RSub(m[1], st.resizeMouseStartX)),
      RAdd(st.resizeActiveCorner[2], RSub(m[2], st.resizeMouseStartY))>>

\* fixed -> active at drag start, fixed -> dragged now
origVec(st) == Vec(st.resizeActiveCorner, st.resizeFixedCorner)
newVec(st, m) == Vec(DraggedCorner(st, m), st.resizeFixedCorner)

\* Math.sqrt(vx ** 2 + vy ** 2) === 0
ZeroLength(v) == v[1][1] = 0 /\ v[2][1] = 0

\* Math.sqrt(vx ** 2 + vy ** 2) < 1
ShorterThanOne(v) ==
    /\ RLess(RAbs(v[1]), Whole(1))
    /\ RLess(RAbs(v[2]), Whole(1))
    /\ RLess(RAdd(RMul(v[1], v[1]), RMul(v[2], v[2])), Whole(1))

ScaledTo(x, l) == x[1] * (l \div x[2])
IntegerComponents(v, w, l) ==
    <<ScaledTo(v[1], l), ScaledTo(v[2], l), ScaledTo(w[1], l), ScaledTo(w[2], l)>>
DividedBy(c, g) == <<c[1] \div g, c[2] \div g, c[3] \div g, c[4] \div g>>
WithoutCommonFactor(c) ==
    DividedBy(c, GCD(GCD(Abs(c[1]), Abs(c[2])), GCD(Abs(c[3]), Abs(c[4]))))
\* the components of v and w as integers in the same unit, v not zero
Components(v, w) ==
    WithoutCommonFactor(
        IntegerComponents(v, w, LCM(LCM(v[1][2], v[2][2]), LCM(w[1][2], w[2][2]))))

\* |w|^2 / |v|^2
SquaredRatio(c) == Frac(c[3] * c[3] + c[4] * c[4], c[1] * c[1] + c[2] * c[2])
FractionOfSquares(c) ==
    /\ \A i \in 1..4 : Abs(c[i]) <= MaxComponent
    /\ IsSquare(SquaredRatio(c)[1])
    /\ IsSquare(SquaredRatio(c)[2])
\* |w| / |v|
LengthRatio(c) == <<ISqrt(SquaredRatio(c)[1]), ISqrt(SquaredRatio(c)[2])>>

\* applyResize returns before it touches the state
ResizeReturnsEarly(st, m) ==
    \/ st.image = NoImage
    \/ ZeroLength(origVec(st))
    \/ ShorterThanOne(newVec(st, m))

\* the pointer positions applyResize is followed on
ResizeInModel(st, m) ==
    ResizeReturnsEarly(st, m) \/ FractionOfSquares(Components(origVec(st), newVec(st, m)))

ResizeTo_PanKept(st, f, newZoom, fixedIndex) == [st EXCEPT !.zoom = newZoom]

\* the switch on fixedIndex and the assignment of state.zoom
ResizeTo(st, f, newZoom, fixedIndex) ==
    [st EXCEPT
       !.panX = IF fixedIndex \in {1, 3}
                THEN RSub(f[1], RMul(Whole(st.image.width), newZoom))
                ELSE IF fixedIndex \in {0, 2} THEN f[1] ELSE st.panX,
       !.panY = IF fixedIndex \in {2, 3}
                THEN RSub(f[2], RMul(Whole(st.image.height), newZoom))
                ELSE IF fixedIndex \in {0, 1} THEN f[2] ELSE st.panY,
       !.zoom = newZoom]

\* a resize that scales the current zoom instead of the zoom at drag start
applyResize_Accumulating(st, m) ==
    IF ResizeReturnsEarly(st, m) THEN st
    ELSE ResizeTo(st, st.resizeFixedCorner,
                  RMax(MinZoom, RMul(st.zoom,
                                     LengthRatio(Components(origVec(st), newVec(st, m))))),
                  3 - st.resizeCorner)

\* applyResize(mx, my) with m = <<mx, my>>
applyResize(st, m) ==
    IF ResizeReturnsEarly(st, m) THEN st
    ELSE ResizeTo(st, st.resizeFixedCorner,
                  RMax(MinZoom, RMul(st.resizeStartZoom,
                                     LengthRatio(Components(origVec(st), newVec(st, m))))),
                  3 - st.resizeCorner)


------------------------------------------------------------------------------
(* The handlers of upload, mouse and wheel as functions of the state       *)

\* img.onload of the image input: state.image = img; fitImage()
imageOnload(st, img) == fitImage([st EXCEPT !.image = img])

GrabCorner(st, corner, corners, m) ==
    [st EXCEPT !.mode = "resize",
               !.resizeCorner = corner,
               !.resizeStartZoom = st.zoom,
               !.resizeFixedCorner = corners[(3 - corner) + 1],
               !.resizeActiveCorner = corners[corner + 1],
               !.resizeMouseStartX = m[1],
               !.resizeMouseStartY = m[2]]

StartPan(st, clientX, clientY) ==
    [st EXCEPT !.mode = "pan", !.lastX = Whole(clientX), !.lastY = Whole(clientY)]

MouseDownOn(st, corner, clientX, clientY) ==
    IF st.image # NoImage /\ corner # -1
    THEN GrabCorner(st, corner, getCorners(st), canvasCoords(clientX, clientY))
    ELSE StartPan(st, clientX, clientY)

\* the mousedown listener of the overlay
onMouseDown(st, clientX, clientY) ==
    MouseDownOn(st, IF st.image = NoImage THEN -1
                    ELSE hitTestCorner(st, canvasCoords(clientX, clientY)),
                clientX, clientY)

\* the pan branch of mousemove and of touchmove
PanTo(st, clientX, clientY) ==
    [st EXCEPT !.panX = RAdd(st.panX, RMul(RSub(Whole(clientX), st.lastX), cScale)),
               !.panY = RAdd(st.panY, RMul(RSub(Whole(clientY), st.lastY), cScale)),
               !.lastX = Whole(clientX),
               !.lastY = Whole(clientY)]

\* the mousemove listener of window
onMouseMove(st, clientX, clientY) ==
    IF st.mode = "pan" THEN PanTo(st, clientX, clientY)
    ELSE IF st.mode = "resize" THEN applyResize(st, canvasCoords(clientX, clientY))
    ELSE st

onMouseUp_KeepCorner(st) == [st EXCEPT !.mode = "none"]

\* the mouseup listener of window
onMouseUp(st) == [st EXCEPT !.mode = "none", !.resizeCorner = -1]

\* zoom about the point m: the new pan and zoom of wheel and of pinch
ZoomAbout(st, m, newZoom) ==
    [st EXCEPT
       !.panX = RSub(m[1], RMul(RSub(m[1], st.panX), RDiv(newZoom, st.zoom))),
       !.panY = RSub(m[2], RMul(RSub(m[2], st.panY), RDiv(newZoom, st.zoom))),
       !.zoom = newZoom]

\* factor = e.deltaY < 0 ? 1.08 : 0.93
WheelFactor(deltaY) == IF deltaY < 0 THEN Frac(27, 25) ELSE Frac(93, 100)

onWheel_Unclamped(st, clientX, clientY, deltaY) ==
    ZoomAbout(st, canvasCoords(clientX, clientY), RMul(st.zoom, WheelFactor(deltaY)))

\* the wheel listener of the overlay
onWheel(st, clientX, clientY, deltaY) ==
    ZoomAbout(st, canvasCoords(clientX, clientY),
              RMax(MinZoom, RMul(st.zoom, WheelFactor(deltaY))))

------------------------------------------------------------------------------
(* The mouse interaction as a state machine                                *)

\* events handled in one run
MaxEvents == 4

\* the images the user picks: width 400 and height 750 (fitted: 464 by 870,
\* diagonal 986), and an image too large for the smallest zoom of the
\* other paths
Uploads == {[width |-> 400, height |-> 750], [width |-> 10000, height |-> 10000]}

\* client positions of the pointer: the top-left handle of the fitted image
\* (drawn on the top edge, the corner itself being above the canvas), the
\* positions that take this corner along the diagonal by 1/58, by half and
\* to 2/58 of its length from the opposite corner, the position that takes
\* it onto the opposite corner, and the centre of the canvas
MousePoints ==
    {<<32, 18>>, <<40, 33>>, <<264, 453>>, <<480, 858>>, <<496, 888>>, <<264, 264>>}

\* client position of the pointer when the wheel is turned
WheelPoints == {<<232, 229>>}

Handled(type, at) ==
    [history EXCEPT !.events = history.events + 1, !.last = [type |-> type, at |-> at]]

\* the page has been drawn and no image is loading: events are handled one
\* at a time, each after the frame of the previous one has been drawn
Settled == preview # <<>> /\ renders = <<>> /\ pending = <<>>

\* a handler that ends in scheduleRender(), leaving the state next
Redrawn(next) == state' = next /\ scheduleRender(next)

\* a handler that draws nothing
Undrawn(next) == state' = next /\ UNCHANGED <<preview, renders, overlay>>

PanZoom(st) == <<st.panX, st.panY, st.zoom>>

\* the wheel is followed from the view the page starts with or fitImage
\* leaves, which keeps the fractions of pan and zoom short
WheelInModel(st) ==
    PanZoom(st) = PanZoom(fitImage([InitialState EXCEPT !.image = st.image]))

upload(img) ==
    /\ Settled
    /\ history.events < MaxEvents
    /\ Redrawn(imageOnload(state, img))
    /\ history' = Handled("load", <<>>)
    /\ UNCHANGED <<frameVars, toneVars>>

mousedown(p) ==
    /\ Settled
    /\ history.events < MaxEvents
    /\ Undrawn(onMouseDown(state, p[1], p[2]))
    /\ history' = [Handled("mousedown", <<p>>) EXCEPT
                      !.dragStart = onMouseDown(state, p[1], p[2])]
    /\ UNCHANGED <<frameVars, toneVars>>

mousemove(p) ==
    /\ Settled
    /\ history.events < MaxEvents
    /\ state.mode = "resize" => ResizeInModel(state, canvasCoords(p[1], p[2]))
    /\ IF state.mode \in {"pan", "resize"}
       THEN Redrawn(onMouseMove(state, p[1], p[2]))
       ELSE Undrawn(onMouseMove(state, p[1], p[2]))
    /\ history' = Handled("mousemove", <<p>>)
    /\ UNCHANGED <<frameVars, toneVars>>

mouseup ==
    /\ Settled
    /\ history.events < MaxEvents
    /\ Undrawn(onMouseUp(state))
    /\ history' = Handled("mouseup", <<>>)
    /\ UNCHANGED <<frameVars, toneVars>>

wheel(p, deltaY) ==
    /\ Settled
    /\ history.events < MaxEvents
    /\ WheelInModel(state)
    /\ Redrawn(onWheel(state, p[1], p[2], deltaY))
    /\ history' = Handled("wheel", <<p>>)
    /\ UNCHANGED <<frameVars, toneVars>>

Upload == \E img \in Uploads : upload(img)
MouseDown == \E p \in MousePoints : mousedown(p)
MouseMove == \E p \in MousePoints : mousemove(p)
Wheel == \E p \in WheelPoints : \E deltaY \in {-100, 100} : wheel(p, deltaY)

MouseNext ==
    pageReady \/ Upload \/ MouseDown \/ MouseMove \/ mouseup \/ Wheel \/ FrameLoaded \/ ImageLoaded

SpecMouse == Init /\ [][MouseNext]_vars


------------------------------------------------------------------------------
(* C15: the corner opposite the dragged one during a resize drag           *)

\* the last event handled was a mousemove of a corner-resize drag
ResizeMoveHandled == history.last.type = "mousemove" /\ state.mode = "resize"

\* the canvas position of that mousemove
LastPoint == canvasCoords(history.last.at[1][1], history.last.at[1][2])

\* the corner opposite the dragged one, computed from panX, panY and zoom
OppositeCorner == getCorners(state)[(3 - state.resizeCorner) + 1]

\* displayed width : displayed height, from the corners
DisplayedRatio ==
    RDiv(RSub(getCorners(state)[2][1], getCorners(state)[1][1]),
         RSub(getCorners(state)[3][2], getCorners(state)[1][2]))

\* C15 as stated: after every mousemove of a corner-resize drag the corner
\* opposite the dragged one is at the position snapshotted at mousedown and
\* the displayed width/height ratio is that of the image
C15_FixedCornerStays ==
    ResizeMoveHandled =>
        /\ OppositeCorner = state.resizeFixedCorner
        /\ DisplayedRatio = Frac(state.image.width, state.image.height)

\* C15 amended: after every mousemove of a corner-resize drag on which
\* applyResize does not return early (the dragged corner is at least one
\* pixel from the fixed one), the corner opposite the dragged one is, in
\* exact arithmetic, at the position snapshotted at mousedown and the
\* displayed width/height ratio is that of the image
C15_FixedCornerStaysOnUpdate ==
    (ResizeMoveHandled /\ ~ResizeReturnsEarly(state, LastPoint)) =>
        /\ OppositeCorner = state.resizeFixedCorner
        /\ DisplayedRatio = Frac(state.image.width, state.image.height)

\* a drag of the top-left corner has changed the zoom, the bottom-right
\* corner being the fixed one
C15_Witness ==
    /\ ResizeMoveHandled
    /\ ~ResizeReturnsEarly(state, LastPoint)
    /\ state.resizeCorner = 0
    /\ state.zoom # state.resizeStartZoom
    /\ state.panX # history.dragStart.panX


------------------------------------------------------------------------------
(* C16: what a mousemove of a resize drag leaves depends on the drag start *)

\* the pointer is where the drag started
BackAtStart ==
    LastPoint = <<state.resizeMouseStartX, state.resizeMouseStartY>>

------------------------------------------------------------------------------
(* C17: the smallest zoom                                                  *)

\* C17: in every state reached through image loads, wheel zooms and corner
\* resizes, state.zoom is at least 0.05
C17_ZoomAtLeastMin == ~RLess(state.zoom, MinZoom)


------------------------------------------------------------------------------
(* C18: the modes of the mouse interaction                                 *)

\* a drag is a resize only with an image, a corner and the snapshot of the
\* corners the image had at the mousedown that started the drag
ResizeHasSnapshot ==
    state.mode = "resize" =>
        /\ state.image # NoImage
        /\ state.resizeCorner \in 0..3
        /\ state.resizeFixedCorner =
              getCorners(history.dragStart)[(3 - state.resizeCorner) + 1]
        /\ state.resizeActiveCorner =
              getCorners(history.dragStart)[state.resizeCorner + 1]

MouseUpEndsDrag ==
    history.last.type = "mouseup" => (state.mode = "none" /\ state.resizeCorner = -1)

IdleMoveKeepsView ==
    (history'.last.type = "mousemove" /\ state.mode = "none")
        => PanZoom(state') = PanZoom(state)

\* C18: in every reachable state mode = 'resize' implies a loaded image, a
\* resizeCorner in 0..3 and the corner snapshots of the mousedown that
\* started the drag; every mouseup leaves mode = 'none' and resizeCorner =
\* -1; a mousemove handled in mode 'none' changes none of panX, panY, zoom
C18_ModeMachine ==
    [](ResizeHasSnapshot /\ MouseUpEndsDrag) /\ [][IdleMoveKeepsView]_vars

\* a resize drag of the top-left corner is under way and has resized
C18_Witness ==
    /\ state.mode = "resize"
    /\ state.resizeCorner = 0
    /\ history.last.type = "mousemove"
    /\ state.zoom # state.resizeStartZoom


------------------------------------------------------------------------------
(* C20: the corner handles                                                 *)

\* the handle circle drawn about centre c lies inside the canvas
CircleInsideCanvas(c) ==
    /\ ~RLess(c[1], Whole(HandlePad)) /\ ~RLess(Whole(SIZE - HandlePad), c[1])
    /\ ~RLess(c[2], Whole(HandlePad)) /\ ~RLess(Whole(SIZE - HandlePad), c[2])
    /\ ~RLess(RSub(c[1], Whole(HANDLE_R)), Whole(0))
    /\ ~RLess(Whole(SIZE), RAdd(c[1], Whole(HANDLE_R)))
    /\ ~RLess(RSub(c[2], Whole(HANDLE_R)), Whole(0))
    /\ ~RLess(Whole(SIZE), RAdd(c[2], Whole(HANDLE_R)))

\* pointer positions the hit test is compared on
HitProbes == {<<32, 18>>, <<40, 33>>, <<264, 264>>}

\* C20: whatever the pan and zoom, the overlay shows the four handles of
\* the loaded image at centres within [10, 502] in x and y, so that each
\* circle of radius 8 lies inside the 512 x 512 canvas, and hitTestCorner
\* answers for every pointer position as a test against the centres drawn
C20_HandlesClamped ==
    /\ Len(overlay) = (IF state.image = NoImage THEN 0 ELSE 4)
    /\ \A i \in DOMAIN overlay : CircleInsideCanvas(overlay[i])
    /\ \A p \in HitProbes :
          hitTestCorner(state, canvasCoords(p[1], p[2]))
              = FirstHit(overlay, canvasCoords(p[1], p[2]), 1)

\* the top-left corner of the image is above the canvas, its handle is
\* drawn on the edge and is hit there
C20_Witness ==
    /\ state.image # NoImage
    /\ RLess(getCorners(state)[1][2], Whole(0))
    /\ overlay[1][2] = Whole(HandlePad)
    /\ hitTestCorner(state, canvasCoords(32, 18)) = 0
    /\ hitTestCorner_Unclamped(state, canvasCoords(32, 18)) = -1


------------------------------------------------------------------------------
(* The touch handlers as functions of the state; touches is e.touches, a   *)
(* sequence of client points                                               *)

\* touchDist(t1, t2); the touch points drawn lie a whole distance apart
touchDist(t1, t2) ==
    Whole(ISqrt((t1[1] - t2[1]) * (t1[1] - t2[1]) + (t1[2] - t2[2]) * (t1[2] - t2[2])))

onTouchStart_PanKept(st, touches) ==
    IF Len(touches) = 1
    THEN [StartPan(st, touches[1][1], touches[1][2]) EXCEPT !.lastPinchDist = Nil]
    ELSE IF Len(touches) = 2
         THEN [st EXCEPT !.lastPinchDist = touchDist(touches[1], touches[2])]
         ELSE st

\* the touchstart listener of the overlay
onTouchStart(st, touches) ==
    IF Len(touches) = 1
    THEN [StartPan(st, touches[1][1], touches[1][2]) EXCEPT !.lastPinchDist = Nil]
    ELSE IF Len(touches) = 2
         THEN [st EXCEPT !.mode = "none",
                         !.lastPinchDist = touchDist(touches[1], touches[2])]
         ELSE st

\* the centre of two touches in canvas pixels
PinchCentre(t1, t2) ==
    <<RMul(RSub(RDiv(Whole(t1[1] + t2[1]), Whole(2)), Whole(Rect.left)), cScale),
      RMul(RSub(RDiv(Whole(t1[2] + t2[2]), Whole(2)), Whole(Rect.top)), cScale)>>

PinchTo(st, m, dist) ==
    [ZoomAbout(st, m, RMax(MinZoom, RMul(st.zoom, RDiv(dist, st.lastPinchDist))))
        EXCEPT !.lastPinchDist = dist]

\* the branch of touchmove that is taken
TouchPans(st, touches) == Len(touches) = 1 /\ st.mode = "pan"
TouchPinches(st, touches) ==
    ~TouchPans(st, touches) /\ Len(touches) = 2 /\ st.lastPinchDist # Nil

\* the touchmove listener of the overlay
onTouchMove(st, touches) ==
    IF TouchPans(st, touches) THEN PanTo(st, touches[1][1], touches[1][2])
    ELSE IF TouchPinches(st, touches)
         THEN PinchTo(st, PinchCentre(touches[1], touches[2]),
                      touchDist(touches[1], touches[2]))
         ELSE st

NoPinchBelowTwo(st, touches) ==
    IF Len(touches) < 2 THEN [st EXCEPT !.lastPinchDist = Nil] ELSE st

\* the touchend listener of the overlay
onTouchEnd(st, touches) ==
    IF Len(touches) = 0
    THEN [NoPinchBelowTwo(st, touches) EXCEPT !.mode = "none"]
    ELSE NoPinchBelowTwo(st, touches)

------------------------------------------------------------------------------
(* The touch interaction as a state machine                                *)

\* e.touches of the events: one finger at the centre of the canvas or ten
\* pixels right of it, two fingers 80, 120 or 40 pixels apart about the
\* centre, three fingers
OneTouch == {<<<<264, 264>>>>, <<<<274, 264>>>>}
TwoTouches ==
    {<<<<224, 264>>, <<304, 264>>>>, <<<<204, 264>>, <<324, 264>>>>,
     <<<<244, 264>>, <<284, 264>>>>}
ThreeTouches == {<<<<224, 264>>, <<304, 264>>, <<264, 300>>>>}
TouchLists == OneTouch \cup TwoTouches \cup ThreeTouches

\* what the ghost fields of history record of a touchstart or touchmove
TouchSeen(type, touches) ==
    [Handled(type, touches) EXCEPT
        !.pinched = IF type = "touchstart" /\ Len(touches) \in {1, 2}
                    THEN Len(touches) = 2 ELSE history.pinched,
        !.twoTouchDist = IF Len(touches) = 2
                         THEN touchDist(touches[1], touches[2])
                         ELSE history.twoTouchDist]

touchstart(touches) ==
    /\ Settled
    /\ history.events < MaxEvents
    /\ Undrawn(onTouchStart(state, touches))
    /\ history' = TouchSeen("touchstart", touches)
    /\ UNCHANGED <<frameVars, toneVars>>

touchmove(touches) ==
    /\ Settled
    /\ history.events < MaxEvents
    /\ IF TouchPans(state, touches) \/ TouchPinches(state, touches)
       THEN Redrawn(onTouchMove(state, touches))
       ELSE Undrawn(onTouchMove(state, touches))
    /\ history' = TouchSeen("touchmove", touches)
    /\ UNCHANGED <<frameVars, toneVars>>

touchend(touches) ==
    /\ Settled
    /\ history.events < MaxEvents
    /\ Undrawn(onTouchEnd(state, touches))
    /\ history' = Handled("touchend", touches)
    /\ UNCHANGED <<frameVars, toneVars>>

TouchStart == \E touches \in TouchLists : touchstart(touches)
TouchMove == \E touches \in TouchLists : touchmove(touches)
TouchEnd ==
    \E touches \in {<<>>, <<<<264, 264>>>>, <<<<224, 264>>, <<304, 264>>>>} : touchend(touches)

TouchNext ==
    pageReady \/ Upload \/ TouchStart \/ TouchMove \/ TouchEnd \/ FrameLoaded \/ ImageLoaded

SpecTouch == Init /\ [][TouchNext]_vars

------------------------------------------------------------------------------
(* C19: pinch overrides pan                                                *)

OneFingerMove == history'.last.type = "touchmove" /\ Len(history'.last.at) = 1
TwoFingerMove == history'.last.type = "touchmove" /\ Len(history'.last.at) = 2

\* after a touchstart with two touches and before a touchstart with one, a
\* one-finger touchmove pans nothing
NoPanAfterPinchStart ==
    (OneFingerMove /\ history.pinched) => PanZoom(state') = PanZoom(state)

\* a touchmove changes pan or zoom by a pinch step only with lastPinchDist
\* holding the distance of the previous two-touch touchstart or touchmove
PinchFromRecordedDistance ==
    (TwoFingerMove /\ PanZoom(state') # PanZoom(state)) =>
        (state.lastPinchDist # Nil /\ state.lastPinchDist = history.twoTouchDist)

\* C19: in any sequence of touch events, once a touchstart has reported two
\* touches no one-finger touchmove pans until a touchstart reports exactly
\* one touch, and a pinch step is applied only while lastPinchDist holds the
\* distance recorded by the previous two-touch touchstart or touchmove
C19_PinchOverridesPan ==
    [][NoPanAfterPinchStart /\ PinchFromRecordedDistance]_vars

\* after a pinch that zoomed, one finger was lifted and the remaining one
\* moved: nothing was panned
C19_Witness ==
    /\ history.pinched
    /\ history.last.type = "touchmove"
    /\ Len(history.last.at) = 1
    /\ state.mode = "none"
    /\ state.lastPinchDist = Nil
    /\ state.zoom # Whole(1)
    /\ state.image = NoImage


------------------------------------------------------------------------------
(* The filled discs of a scene: the circles centred on the canvas that     *)
(* carry a fill, in document order                                         *)

IsFilledDisc(sh) ==
    sh.tag = "circle" /\ CentreOf(sh) = Centre /\ sh.fill # NoPaint

FilledDiscs == SelectSeq(LatestScene, IsFilledDisc)

\* p is inside disc i of ds and outside every disc after it
InnermostAt(ds, i, p) ==
    /\ Dist2(p, Centre) <= Sq(ds[i].r)
    /\ i < Len(ds) => Dist2(p, Centre) > Sq(ds[i + 1].r)

(* C21: in every frame style the filled discs centred at (256,256) come    *)
(* outer-to-inner: their radii strictly decrease in drawing order, so at   *)
(* every point the discs show the fill of the innermost disc that holds    *)
(* it; the innermost disc has radius at least 232, and every point from    *)
(* the hole radius 232 out to the outermost disc radius shows paint.       *)
C21_DiscsOuterToInner ==
    Rendered =>
        /\ FilledDiscs # <<>>
        /\ \A i \in 1..(Len(FilledDiscs) - 1) : FilledDiscs[i].r > FilledDiscs[i + 1].r
        /\ \A i \in 1..Len(FilledDiscs) : FilledDiscs[i].opacity = 100
        /\ FilledDiscs[Len(FilledDiscs)].r >= Px(HoleRadius)
        /\ \A p \in SamplePoints :
              /\ \A i \in 1..Len(FilledDiscs) :
                    InnermostAt(FilledDiscs, i, p) =>
                        TopPaint(FilledDiscs, p) = FilledDiscs[i].fill
              /\ (Dist2(p, Centre) > Sq(Px(HoleRadius))
                      /\ Dist2(p, Centre) <= Sq(FilledDiscs[1].r)) =>
                    Visible(LatestImage.svg, p)

\* a riveted image: four discs 252, 249, 237, 233 with the bands and the
\* rivets emitted between the third and the fourth, which paints the centre
C21_Witness ==
    /\ Rendered
    /\ LatestImage.sel = 4
    /\ [k \in 1..Len(FilledDiscs) |-> FilledDiscs[k].r] =
           <<Px(252), Px(249), Px(237), Px(233)>>
    /\ Len(LatestScene) = 57
    /\ LatestScene[57] = FilledDiscs[4]
    /\ LatestScene[4].fill = NoPaint
    /\ TopPaint(FilledDiscs, Centre) = FilledDiscs[4].fill
    /\ TopPaint(FilledDiscs, PointAt(Px(240), <<3, 4>>)) = FilledDiscs[2].fill


------------------------------------------------------------------------------
(* The layers of the double ring                                           *)

DoubleRingRendered == Rendered /\ LatestImage.sel = 1

DiscRadii == [k \in 1..Len(FilledDiscs) |-> FilledDiscs[k].r]
DiscFills == [k \in 1..Len(FilledDiscs) |-> FilledDiscs[k].fill]

\* every element of the scene is a filled disc, and there are seven
SevenDiscs == Len(LatestScene) = 7 /\ Len(FilledDiscs) = 7

\* the radii descend from 252 to 232
Descending252To232 ==
    /\ DiscRadii[1] = Px(252)
    /\ DiscRadii[7] = Px(232)
    /\ \A i \in 1..6 : DiscRadii[i] > DiscRadii[i + 1]

\* the band of disc 4, between the two ring pairs, is not empty, lies
\* outside the masked radius and shows paint
GapBandShows ==
    /\ DiscRadii[4] > DiscRadii[5]
    /\ DiscRadii[5] >= Px(HoleRadius)
    /\ \A ray \in SampleRays :
          /\ InnermostAt(FilledDiscs, 4, PointAt(Px(240), ray))
          /\ Visible(LatestImage.svg, PointAt(Px(240), ray))
          /\ ColourAt(LatestImage.svg, PointAt(Px(240), ray)) = DiscFills[4]

\* the fills are tones vdark, base and light only, no two neighbours alike
OnlyVdarkBaseLight(t) ==
    /\ \A i \in 1..7 : DiscFills[i] \in {t.vdark, t.base, t.light}
    /\ \A i \in 1..6 : DiscFills[i] # DiscFills[i + 1]

\* the fills in drawing order
LayerTones(t) ==
    DiscFills = <<t.vdark, t.base, t.vdark, t.dark, t.vdark, t.light, t.vdark>>

\* C22 as stated: exactly 7 concentric filled circles, radii descending
\* from 252 to 232, colours alternating among vdark, base and light only,
\* two ring pairs separated by a visible gap band
C22_OnlyThreeTones ==
    DoubleRingRendered =>
        /\ SevenDiscs
        /\ Descending252To232
        /\ GapBandShows
        /\ OnlyVdarkBaseLight(toneVariants(LatestImage.color))

(* C22: the double ring emits exactly 7 concentric filled circles with     *)
(* radii 252, 248, 243, 240, 238, 235, 232 painted vdark, base, vdark,     *)
(* dark, vdark, light, vdark: a vdark/base/vdark ring pair and a           *)
(* vdark/light/vdark ring pair separated by a band in tone dark between    *)
(* radii 238 and 240, non-empty and outside the masked radius 232.         *)
C22_DoubleRingLayers ==
    DoubleRingRendered =>
        /\ SevenDiscs
        /\ Descending252To232
        /\ DiscRadii = <<Px(252), Px(248), Px(243), Px(240), Px(238), Px(235), Px(232)>>
        /\ GapBandShows
        /\ LayerTones(toneVariants(LatestImage.color))

\* the tone of the gap band is none of the three tones of the ring pairs
GapToneIsFourth(t) == t.dark \notin {t.vdark, t.base, t.light}

\* the double ring for the default accent: at radius 240 it shows tone
\* dark, which differs from vdark, base and light
C22_Witness ==
    /\ DoubleRingRendered
    /\ LatestImage.color = DefaultColour
    /\ GapToneIsFourth(toneVariants(LatestImage.color))
    /\ ColourAt(LatestImage.svg, PointAt(Px(240), <<3, 4>>)) = FilledDiscs[4].fill
    /\ FilledDiscs[4].fill # FilledDiscs[3].fill


------------------------------------------------------------------------------
(* Angular layout of the repeated motifs, read off the emitted document.   *)
(* The positions are emitted with one decimal; n points on one circle are  *)
(* at -90 + i * 360 / n degrees, clockwise, when the first is at the top,  *)
(* the first quarter of them move right and down to the point at the       *)
(* right-hand side, every step turns clockwise and all chords between      *)
(* neighbours are equal.                                                   *)

Cross(u, v) == u[1] * v[2] - u[2] * v[1]
FromCentre(c) == <<c[1] - Centre[1], c[2] - Centre[2]>>
After(cs, i) == cs[(i % Len(cs)) + 1]

\* the chord from point i to the next as long as the first chord, up to
\* the rounding of the four coordinates
SameChord(cs, i, r) ==
    Dist2(cs[i], After(cs, i)) - Dist2(cs[1], cs[2]) \in (0 - 12 * Px(r))..(12 * Px(r))

EvenlyClockwiseFromTop(cs, n, r) ==
    /\ Len(cs) = n
    /\ cs[1] = <<Px(256), Px(256 - r)>>
    /\ cs[(n \div 4) + 1] = <<Px(256 + r), Px(256)>>
    /\ \A i \in 1..(n \div 4) : cs[i + 1][1] > cs[i][1] /\ cs[i + 1][2] > cs[i][2]
    /\ \A i \in 1..n :
          /\ OnRadius(cs[i], r)
          /\ Cross(FromCentre(cs[i]), FromCentre(After(cs, i))) > 0
          /\ SameChord(cs, i, r)

IsStrand(sh) == sh.tag = "path" /\ sh.linecap = "round"
IsPetalDot(sh) == sh.tag = "circle" /\ sh.r = PetalDotRadius
IsRivet(sh) == sh.tag = "circle" /\ sh.r = Px(5)

Strands == SelectSeq(LatestScene, IsStrand)
StrandStarts == [k \in 1..Len(Strands) |-> Strands[k].d[1]]
PetalTips == [k \in 1..Len(SelectSeq(LatestScene, IsPetalDot)) |->
                 CentreOf(SelectSeq(LatestScene, IsPetalDot)[k])]
RivetCentres == [k \in 1..Len(SelectSeq(LatestScene, IsRivet)) |->
                    CentreOf(SelectSeq(LatestScene, IsRivet)[k])]
GemCentres == [k \in 1..Len(SelectSeq(LatestScene, IsGemDot)) |->
                  CentreOf(SelectSeq(LatestScene, IsGemDot)[k])]

\* strand i is base for even i and dark for odd i
StrandTones(t) ==
    \A k \in 1..Len(Strands) :
        Strands[k].stroke = (IF (k - 1) % 2 = 0 THEN t.base ELSE t.dark)

(* C23: in every style with repeated motifs the motif of index 0 is at     *)
(* -90 degrees (canvas top) and motif i at -90 + i * 360 / n degrees,      *)
(* clockwise: the n = 36 rope strands start there on radius 242, base for  *)
(* even i and dark for odd i; the n = 8 ornate petals have their tips      *)
(* there on radius 248; the n = 24 rivets are there on radius 242; the     *)
(* n = 8 gems are there on radius 242.                                     *)
C23_MotifsFromTop ==
    Rendered =>
        /\ LatestImage.sel = 2 =>
              /\ EvenlyClockwiseFromTop(StrandStarts, 36, 242)
              /\ StrandTones(toneVariants(LatestImage.color))
        /\ LatestImage.sel = 3 => EvenlyClockwiseFromTop(PetalTips, 8, 248)
        /\ LatestImage.sel = 4 => EvenlyClockwiseFromTop(RivetCentres, 24, 242)
        /\ LatestImage.sel = 5 => EvenlyClockwiseFromTop(GemCentres, 8, 242)

\* a rope-twist image for #FF0000: strand 9 starts at the right-hand side,
\* strand 18 at the bottom, strand 0 is base and strand 1 dark, two
\* different colours
C23_Witness ==
    /\ Rendered
    /\ LatestImage.sel = 2
    /\ LatestImage.color = <<"#", "F", "F", "0", "0", "0", "0">>
    /\ Len(Strands) = 36
    /\ StrandStarts[10] = <<Px(498), Px(256)>>
    /\ StrandStarts[19] = <<Px(256), Px(498)>>
    /\ Strands[1].stroke # Strands[2].stroke
    /\ Strands[2].stroke = Strands[36].stroke

==============================================================================
